---- MODULE Spec2Model ----
(***************************************************************************)
(* Authentication / authorization middleware chain of the MERN blog API:   *)
(* token service (utils/auth.js), request middleware (middleware/auth.js), *)
(* validation gate (middleware/validation.js), error handler               *)
(* (middleware/errorHandler.js) and the route chains that compose them.    *)
(*                                                                         *)
(* JavaScript strings that the code slices or prefixes (the Authorization  *)
(* header, the compact JWT) are sequences of one-symbol strings.  Names    *)
(* that the code only compares (ids, usernames, roles) are symbols.        *)
(***************************************************************************)
EXTENDS Integers, Sequences, FiniteSets, TLC

VARIABLES users, now, issued, req, posts

vars == <<users, now, issued, req, posts>>

----------------------------------------------------------------------------
(* Bounds of the model *)

\* largest value of the clock
MaxTime == 2

\* largest view count of a post
MaxViews == 2

----------------------------------------------------------------------------
(* JavaScript values *)

Undefined == [t |-> "undefined"]
Null == [t |-> "null"]
\* a string the code inspects character by character
Str(s) == [t |-> "string", s |-> s]
\* an id held as a mongoose ObjectId, and the same id held as a hex string
Oid(v) == [t |-> "objectid", v |-> v]
IdStr(v) == [t |-> "idstring", v |-> v]

\* JavaScript truthiness of the values the middleware tests with ! / &&
Truthy(x) ==
    CASE x.t = "undefined" -> FALSE
      [] x.t = "null" -> FALSE
      [] x.t = "string" -> Len(x.s) > 0
      [] x.t = "idstring" -> x.v # ""
      [] OTHER -> TRUE

\* value.toString() of an id
ToStr(x) == x.v

\* String.prototype.startsWith
StartsWith(s, p) == Len(s) >= Len(p) /\ SubSeq(s, 1, Len(p)) = p

\* String.prototype.slice(n)
Slice(s, n) == SubSeq(s, n + 1, Len(s))

Last(s) == s[Len(s)]

----------------------------------------------------------------------------
(* utils/auth.js *)

JWT_SECRET == "your-secret-key"
\* '7d', in ticks of the model clock
JWT_EXPIRE == 2
ISSUER == "mern-testing-app"
AUDIENCE == "mern-testing-users"

Digit == <<"0", "1", "2", "3", "4", "5", "6", "7", "8", "9">>
DigitChar(n) == Digit[n + 1]
IsDigit(c) == \E n \in 0..9 : Digit[n + 1] = c
ParseDigit(c) == CHOOSE n \in 0..9 : Digit[n + 1] = c

\* the payload segment of the compact serialisation
PayloadSeg(p) ==
    <<p.id, p.username, p.email, p.role, p.iss, p.aud,
      DigitChar(p.iat), DigitChar(p.exp)>>

PayloadLen == 8

\* the signature segment: a MAC of the payload segment under the key
Mac(seg, secret) == <<secret>> \o seg

\* jwt.sign that drops the role claim
JwtSign_NoRole(payload, secret, opts, at) ==
    LET p == [id |-> payload.id, username |-> payload.username,
              email |-> payload.email, role |-> "",
              iss |-> opts.issuer, aud |-> opts.audience,
              iat |-> at, exp |-> at + opts.expiresIn]
        seg == PayloadSeg(p)
    IN seg \o <<".">> \o Mac(seg, secret)

\* jwt.sign(payload, secret, {expiresIn, issuer, audience}) at time `at`
JwtSign(payload, secret, opts, at) ==
    LET p == [id |-> payload.id, username |-> payload.username,
              email |-> payload.email, role |-> payload.role,
              iss |-> opts.issuer, aud |-> opts.audience,
              iat |-> at, exp |-> at + opts.expiresIn]
        seg == PayloadSeg(p)
    IN seg \o <<".">> \o Mac(seg, secret)

\* the claims a payload segment decodes to
DecodeSeg(seg) ==
    [id |-> seg[1], username |-> seg[2], email |-> seg[3], role |-> seg[4],
     iss |-> seg[5], aud |-> seg[6],
     iat |-> ParseDigit(seg[7]), exp |-> ParseDigit(seg[8])]

WellFormed(tok) ==
    /\ Len(tok) = 2 * PayloadLen + 2
    /\ tok[PayloadLen + 1] = "."
    /\ IsDigit(tok[PayloadLen - 1])
    /\ IsDigit(tok[PayloadLen])

Ok(v) == [ok |-> TRUE, value |-> v, error |-> "", message |-> ""]
Throw(name, msg) == [ok |-> FALSE, value |-> Null, error |-> name, message |-> msg]

\* jwt.verify reporting an expired token as an invalid one
JwtVerify_ExpiredIsInvalid(tok, secret, opts, at) ==
    IF ~WellFormed(tok) THEN Throw("JsonWebTokenError", "jwt malformed")
    ELSE LET seg == SubSeq(tok, 1, PayloadLen)
             sig == SubSeq(tok, PayloadLen + 2, Len(tok))
             p == DecodeSeg(seg)
         IN IF sig # Mac(seg, secret)
                THEN Throw("JsonWebTokenError", "invalid signature")
            ELSE IF at >= p.exp
                THEN Throw("JsonWebTokenError", "jwt expired")
            ELSE IF p.aud # opts.audience
                THEN Throw("JsonWebTokenError", "jwt audience invalid")
            ELSE IF p.iss # opts.issuer
                THEN Throw("JsonWebTokenError", "jwt issuer invalid")
            ELSE Ok(p)

\* jwt.verify(token, secret, {issuer, audience}) at time `at`
JwtVerify(tok, secret, opts, at) ==
    IF ~WellFormed(tok) THEN Throw("JsonWebTokenError", "jwt malformed")
    ELSE LET seg == SubSeq(tok, 1, PayloadLen)
             sig == SubSeq(tok, PayloadLen + 2, Len(tok))
             p == DecodeSeg(seg)
         IN IF sig # Mac(seg, secret)
                THEN Throw("JsonWebTokenError", "invalid signature")
            ELSE IF at >= p.exp
                THEN Throw("TokenExpiredError", "jwt expired")
            ELSE IF p.aud # opts.audience
                THEN Throw("JsonWebTokenError", "jwt audience invalid")
            ELSE IF p.iss # opts.issuer
                THEN Throw("JsonWebTokenError", "jwt issuer invalid")
            ELSE Ok(p)

\* generateToken(user), called at time `at`
generateToken(user, at) ==
    JwtSign([id |-> ToStr(user._id), username |-> user.username,
             email |-> user.email, role |-> user.role],
            JWT_SECRET,
            [expiresIn |-> JWT_EXPIRE, issuer |-> ISSUER, audience |-> AUDIENCE],
            at)

\* verifyToken(token), called at time `at`
verifyToken(tok, at) ==
    JwtVerify(tok, JWT_SECRET, [issuer |-> ISSUER, audience |-> AUDIENCE], at)

BearerPrefix == <<"B", "e", "a", "r", "e", "r", " ">>
BearerLen == 7

\* extractToken that cuts one character too few
extractToken_Slice6(authHeader) ==
    IF ~Truthy(authHeader) \/ ~StartsWith(authHeader.s, BearerPrefix)
    THEN Null
    ELSE Str(Slice(authHeader.s, BearerLen - 1))

\* extractToken(authHeader)
extractToken(authHeader) ==
    IF ~Truthy(authHeader) \/ ~StartsWith(authHeader.s, BearerPrefix)
    THEN Null
    ELSE Str(Slice(authHeader.s, BearerLen))

\* query.select('-a -b'): the document without the excluded paths
Select(doc, excluded) ==
    IF DOMAIN doc \cap excluded = {} THEN doc
    ELSE [k \in DOMAIN doc \ excluded |-> doc[k]]

\* Model.findById(id) on the collection `db`
FindById(db, id) ==
    IF \E u \in db : ToStr(u._id) = id
    THEN CHOOSE u \in db : ToStr(u._id) = id
    ELSE Null

\* getUserFromToken that accepts only the token of the latest login
getUserFromToken_LatestLoginOnly(tok, db, at, dbError) ==
    LET decoded == verifyToken(tok, at)
    IN IF ~decoded.ok THEN Throw("Error", "Invalid token")
       ELSE IF dbError THEN Throw("Error", "Invalid token")
       ELSE LET user == Select(FindById(db, decoded.value.id), {"password"})
            IN IF /\ "lastLogin" \in DOMAIN user
                  /\ user.lastLogin # <<decoded.value.iat>>
               THEN Throw("Error", "Invalid token")
               ELSE Ok(user)

\* getUserFromToken(token); dbError: the persistence call rejects
getUserFromToken(tok, db, at, dbError) ==
    LET decoded == verifyToken(tok, at)
    IN IF ~decoded.ok THEN Throw("Error", "Invalid token")
       ELSE IF dbError THEN Throw("Error", "Invalid token")
       ELSE Ok(Select(FindById(db, decoded.value.id), {"password"}))

----------------------------------------------------------------------------
(* requests, responses and the outcome of one middleware invocation *)

\* a plain object with the given own properties
Obj(f) == [t |-> "object", f |-> f]
Empty == [k \in {} |-> Undefined]
\* obj[key]
Get(o, k) == IF k \in DOMAIN o.f THEN o.f[k] ELSE Undefined

\* a message that is one string, and a message that is a list of strings
Text(m) == [list |-> FALSE, v |-> <<m>>]
List(ms) == [list |-> TRUE, v |-> ms]

\* res.status(status).json(body): keys are the own properties of the body,
\* the other fields their values (a default where the key is absent)
Body(status, keys, success, error, message, field, errors, data) ==
    [status |-> status, keys |-> keys, success |-> success, error |-> error,
     message |-> message, field |-> field, errors |-> errors, data |-> data]

\* res.status(status).json({ error, message })
Json(status, error, message, field) ==
    Body(status, {"error", "message"}, FALSE, error, message, field, <<>>, Null)

NoErr == [name |-> "", code |-> 0, keyValue |-> <<>>, errors |-> <<>>,
          statusCode |-> 0, message |-> ""]
Err(name, message) == [NoErr EXCEPT !.name = name, !.message = message]

\* the invocation sent `resp` and returned without calling next
Respond(r, resp) == [user |-> r.user, responses |-> <<resp>>, nexts |-> <<>>]
\* the invocation called next() and sent nothing
Continue(r) == [user |-> r.user, responses |-> <<>>, nexts |-> <<NoErr>>]
\* the invocation called next(err) and sent nothing
Forward(r, err) == [user |-> r.user, responses |-> <<>>, nexts |-> <<err>>]

----------------------------------------------------------------------------
(* middleware/auth.js *)

\* authenticate without the isActive check
authenticate_SkipsActive(r, db, at, dbError) ==
    LET token == extractToken(r.authorization)
    IN IF ~Truthy(token)
       THEN Respond(r, Json(401, Text("Access denied"), "No token provided", ""))
       ELSE LET res == getUserFromToken(token.s, db, at, dbError)
            IN IF ~res.ok
               THEN Respond(r, Json(401, Text("Access denied"),
                                    "Token verification failed", ""))
               ELSE IF ~Truthy(res.value)
               THEN Respond(r, Json(401, Text("Access denied"),
                                    "Invalid token or user not found", ""))
               ELSE [Continue(r) EXCEPT !.user = res.value]

\* authenticate whose catch block forwards the exception
authenticate_ForwardsError(r, db, at, dbError) ==
    LET token == extractToken(r.authorization)
    IN IF ~Truthy(token)
       THEN Respond(r, Json(401, Text("Access denied"), "No token provided", ""))
       ELSE LET res == getUserFromToken(token.s, db, at, dbError)
            IN IF ~res.ok
               THEN Forward(r, Err(res.error, res.message))
               ELSE IF ~Truthy(res.value)
               THEN Respond(r, Json(401, Text("Access denied"),
                                    "Invalid token or user not found", ""))
               ELSE IF ~res.value.isActive
               THEN Respond(r, Json(401, Text("Access denied"),
                                    "User account is deactivated", ""))
               ELSE [Continue(r) EXCEPT !.user = res.value]

\* authenticate(req, res, next)
authenticate(r, db, at, dbError) ==
    LET token == extractToken(r.authorization)
    IN IF ~Truthy(token)
       THEN Respond(r, Json(401, Text("Access denied"), "No token provided", ""))
       ELSE LET res == getUserFromToken(token.s, db, at, dbError)
            IN IF ~res.ok
               THEN Respond(r, Json(401, Text("Access denied"),
                                    "Token verification failed", ""))
               ELSE IF ~Truthy(res.value)
               THEN Respond(r, Json(401, Text("Access denied"),
                                    "Invalid token or user not found", ""))
               ELSE IF ~res.value.isActive
               THEN Respond(r, Json(401, Text("Access denied"),
                                    "User account is deactivated", ""))
               ELSE [Continue(r) EXCEPT !.user = res.value]

\* optionalAuth without the try/catch: the exception reaches express
optionalAuth_NoCatch(r, db, at, dbError) ==
    LET token == extractToken(r.authorization)
    IN IF Truthy(token)
       THEN LET res == getUserFromToken(token.s, db, at, dbError)
            IN IF ~res.ok THEN Forward(r, Err(res.error, res.message))
               ELSE IF Truthy(res.value) /\ res.value.isActive
               THEN [Continue(r) EXCEPT !.user = res.value]
               ELSE Continue(r)
       ELSE Continue(r)

\* optionalAuth(req, res, next)
optionalAuth(r, db, at, dbError) ==
    LET token == extractToken(r.authorization)
    IN IF Truthy(token)
       THEN LET res == getUserFromToken(token.s, db, at, dbError)
            IN IF ~res.ok THEN Continue(r)
               ELSE IF Truthy(res.value) /\ res.value.isActive
               THEN [Continue(r) EXCEPT !.user = res.value]
               ELSE Continue(r)
       ELSE Continue(r)

\* authorize whose 403 branch lacks the return
authorize_NoReturn(roles, r) ==
    IF ~Truthy(r.user)
    THEN Respond(r, Json(401, Text("Access denied"), "Authentication required", ""))
    ELSE IF roles # {} /\ r.user.role \notin roles
    THEN [Respond(r, Json(403, Text("Forbidden"), "Insufficient permissions", ""))
             EXCEPT !.nexts = <<NoErr>>]
    ELSE Continue(r)

\* authorize without the roles.length test
authorize_EmptyDenies(roles, r) ==
    IF ~Truthy(r.user)
    THEN Respond(r, Json(401, Text("Access denied"), "Authentication required", ""))
    ELSE IF r.user.role \notin roles
    THEN Respond(r, Json(403, Text("Forbidden"), "Insufficient permissions", ""))
    ELSE Continue(r)

\* authorize(...roles)(req, res, next)
authorize(roles, r) ==
    IF ~Truthy(r.user)
    THEN Respond(r, Json(401, Text("Access denied"), "Authentication required", ""))
    ELSE IF roles # {} /\ r.user.role \notin roles
    THEN Respond(r, Json(403, Text("Forbidden"), "Insufficient permissions", ""))
    ELSE Continue(r)

\* checkOwnership without the admin bypass
checkOwnership_NoAdminBypass(resourceField, r) ==
    IF ~Truthy(r.user)
    THEN Respond(r, Json(401, Text("Access denied"), "Authentication required", ""))
    ELSE LET resource == IF Truthy(r.resource) THEN r.resource ELSE r.body
         IN IF Truthy(resource) /\ Truthy(Get(resource, resourceField))
            THEN IF ToStr(Get(resource, resourceField)) # ToStr(r.user._id)
                 THEN Respond(r, Json(403, Text("Forbidden"),
                                      "You can only access your own resources", ""))
                 ELSE Continue(r)
            ELSE Continue(r)

\* checkOwnership that compares the owner with the username
checkOwnership_ByUsername(resourceField, r) ==
    IF ~Truthy(r.user)
    THEN Respond(r, Json(401, Text("Access denied"), "Authentication required", ""))
    ELSE IF r.user.role = "admin"
    THEN Continue(r)
    ELSE LET resource == IF Truthy(r.resource) THEN r.resource ELSE r.body
         IN IF Truthy(resource) /\ Truthy(Get(resource, resourceField))
            THEN IF ToStr(Get(resource, resourceField)) # r.user.username
                 THEN Respond(r, Json(403, Text("Forbidden"),
                                      "You can only access your own resources", ""))
                 ELSE Continue(r)
            ELSE Continue(r)

\* checkOwnership that consults req.body when req.resource has no owner
checkOwnership_BodyFallback(resourceField, r) ==
    IF ~Truthy(r.user)
    THEN Respond(r, Json(401, Text("Access denied"), "Authentication required", ""))
    ELSE IF r.user.role = "admin"
    THEN Continue(r)
    ELSE LET resource == IF Truthy(r.resource)
                            /\ Truthy(Get(r.resource, resourceField))
                         THEN r.resource ELSE r.body
         IN IF Truthy(resource) /\ Truthy(Get(resource, resourceField))
            THEN IF ToStr(Get(resource, resourceField)) # ToStr(r.user._id)
                 THEN Respond(r, Json(403, Text("Forbidden"),
                                      "You can only access your own resources", ""))
                 ELSE Continue(r)
            ELSE Continue(r)

\* checkOwnership(resourceField)(req, res, next)
checkOwnership(resourceField, r) ==
    IF ~Truthy(r.user)
    THEN Respond(r, Json(401, Text("Access denied"), "Authentication required", ""))
    ELSE IF r.user.role = "admin"
    THEN Continue(r)
    ELSE LET resource == IF Truthy(r.resource) THEN r.resource ELSE r.body
         IN IF Truthy(resource) /\ Truthy(Get(resource, resourceField))
            THEN IF ToStr(Get(resource, resourceField)) # ToStr(r.user._id)
                 THEN Respond(r, Json(403, Text("Forbidden"),
                                      "You can only access your own resources", ""))
                 ELSE Continue(r)
            ELSE Continue(r)

----------------------------------------------------------------------------
(* middleware/validation.js *)

\* handleValidationErrors(req, res, next); errors: validationResult(req).array()
handleValidationErrors(r, errors) ==
    IF errors # <<>>
    THEN Respond(r, Body(400, {"success", "error", "errors"}, FALSE,
                         Text("Validation failed"), "", "", errors, Null))
    ELSE Continue(r)

----------------------------------------------------------------------------
(* middleware/errorHandler.js *)

\* Object.values(err.errors).map(val => val.message)
Messages(errors) == [k \in 1..Len(errors) |-> errors[k].message]

\* errorHandler without the duplicate key branch
Normalize_NoDuplicateBranch(err) ==
    LET e0 == [message |-> Text(err.message), statusCode |-> err.statusCode,
               field |-> "", errors |-> <<>>]
        e1 == IF err.name = "CastError"
              THEN [message |-> Text("Resource not found"), statusCode |-> 404,
                    field |-> "", errors |-> <<>>]
              ELSE e0
        e2 == e1
        e3 == IF err.name = "ValidationError"
              THEN [message |-> List(Messages(err.errors)), statusCode |-> 400,
                    field |-> "", errors |-> err.errors]
              ELSE e2
        e4 == IF err.name = "JsonWebTokenError"
              THEN [message |-> Text("Invalid token"), statusCode |-> 401,
                    field |-> "", errors |-> <<>>]
              ELSE e3
        e5 == IF err.name = "TokenExpiredError"
              THEN [message |-> Text("Token expired"), statusCode |-> 401,
                    field |-> "", errors |-> <<>>]
              ELSE e4
    IN e5

\* errorHandler without the CastError branch
Normalize_NoCastBranch(err) ==
    LET e0 == [message |-> Text(err.message), statusCode |-> err.statusCode,
               field |-> "", errors |-> <<>>]
        e1 == e0
        e2 == IF err.code = 11000
              THEN [message |-> [list |-> FALSE,
                                  v |-> <<err.keyValue[1], " already exists">>],
                    statusCode |-> 400, field |-> err.keyValue[1],
                    errors |-> <<>>]
              ELSE e1
        e3 == IF err.name = "ValidationError"
              THEN [message |-> List(Messages(err.errors)), statusCode |-> 400,
                    field |-> "", errors |-> err.errors]
              ELSE e2
        e4 == IF err.name = "JsonWebTokenError"
              THEN [message |-> Text("Invalid token"), statusCode |-> 401,
                    field |-> "", errors |-> <<>>]
              ELSE e3
        e5 == IF err.name = "TokenExpiredError"
              THEN [message |-> Text("Token expired"), statusCode |-> 401,
                    field |-> "", errors |-> <<>>]
              ELSE e4
    IN e5

\* the error object left after the signature branches of errorHandler
Normalize(err) ==
    LET e0 == [message |-> Text(err.message), statusCode |-> err.statusCode,
               field |-> "", errors |-> <<>>]
        e1 == IF err.name = "CastError"
              THEN [message |-> Text("Resource not found"), statusCode |-> 404,
                    field |-> "", errors |-> <<>>]
              ELSE e0
        e2 == IF err.code = 11000
              THEN [message |-> [list |-> FALSE,
                                  v |-> <<err.keyValue[1], " already exists">>],
                    statusCode |-> 400, field |-> err.keyValue[1],
                    errors |-> <<>>]
              ELSE e1
        e3 == IF err.name = "ValidationError"
              THEN [message |-> List(Messages(err.errors)), statusCode |-> 400,
                    field |-> "", errors |-> err.errors]
              ELSE e2
        e4 == IF err.name = "JsonWebTokenError"
              THEN [message |-> Text("Invalid token"), statusCode |-> 401,
                    field |-> "", errors |-> <<>>]
              ELSE e3
        e5 == IF err.name = "TokenExpiredError"
              THEN [message |-> Text("Token expired"), statusCode |-> 401,
                    field |-> "", errors |-> <<>>]
              ELSE e4
    IN e5

\* Object.keys(err.keyValue) and Object.values(err.errors) throw a TypeError
\* when the property is undefined (<<>>)
Throws(err) ==
    \/ err.code = 11000 /\ err.keyValue = <<>>
    \/ err.name = "ValidationError" /\ err.errors = <<>>

\* the body errorHandler sends: success and error, nothing else
\* (the stack is added in development only); when a branch throws, express
\* catches the exception and passes it on as next(exception)
errorHandler(r, err) ==
    IF Throws(err)
    THEN Forward(r, Err("TypeError", "Cannot convert undefined or null to object"))
    ELSE
    LET error == Normalize(err)
    IN Respond(r, Body(IF error.statusCode # 0 THEN error.statusCode ELSE 500,
                       {"success", "error"}, FALSE,
                       IF error.message.list \/ error.message.v # <<"">>
                       THEN error.message ELSE Text("Server Error"),
                       "", "", <<>>, Null))

\* the handler express ends the stack with: it answers an error nobody
\* handled with 500 and an HTML page
finalhandler(r, err) ==
    Respond(r, Body(500, {}, FALSE, Text(""), "", "", <<>>, Null))

\* the message notFound builds for a url
NotFoundMessage(url) ==
    CASE url = "/non-existent-route" -> "Not Found - /non-existent-route"
      [] url = "/api/unknown" -> "Not Found - /api/unknown"

\* notFound(req, res, next): res.status(404) sends nothing
notFound(r) == Forward(r, Err("Error", NotFoundMessage(r.originalUrl)))

----------------------------------------------------------------------------
(* the stored identities, the requests a client can send, the route chains *)

User(id, username, email, role, isActive) ==
    [t |-> "object", _id |-> Oid(id), username |-> username, email |-> email,
     role |-> role, isActive |-> isActive]

Post(id, author, views) ==
    [t |-> "object", _id |-> Oid(id), author |-> Oid(author), views |-> views]

\* a post created by scripts/setup-test-db.js
SeedPosts == {Post("p1", "1", 0)}

\* the identities created by scripts/setup-test-db.js and by registration
SeedUsers ==
    {User("1", "testuser", "test@example.com", "user", TRUE),
     User("2", "admin", "admin@example.com", "admin", TRUE)}

Mw(name, roles, field) == [mw |-> name, roles |-> roles, field |-> field]
Authenticate == Mw("authenticate", {}, "")
OptionalAuth == Mw("optionalAuth", {}, "")
Authorize(roles) == Mw("authorize", roles, "")
CheckOwnership(field) == Mw("checkOwnership", {}, field)
Validate == Mw("handleValidationErrors", {}, "")
Controller == Mw("controller", {}, "")

\* the route chains of routes/auth.js, routes/posts.js, routes/users.js and
\* routes/categories.js, and chains that guard a resource by ownership
Chains ==
    {<<Authenticate, Controller>>,
     <<Validate, OptionalAuth, Controller>>,
     <<Authenticate, Validate, Controller>>,
     <<Authenticate, Authorize({"admin"}), Validate, Controller>>,
     <<OptionalAuth, Authorize({"admin", "moderator"}), Controller>>,
     <<Authenticate, Authorize({}), CheckOwnership("author"), Validate,
       Controller>>,
     <<OptionalAuth, CheckOwnership("author"), Controller>>}

\* values an owner field can hold
OwnerValues == {Oid("1"), IdStr("1"), Oid("3"), IdStr("testuser")}

\* (req.resource, req.body) of a request
Attachments ==
    {<<Null, Obj(Empty)>>}
    \cup {<<Obj([k \in {"author"} |-> v]), Obj(Empty)>> : v \in OwnerValues}
    \cup {<<Null, Obj([k \in {"author"} |-> v])>> : v \in {IdStr("1"), Oid("3")}}
    \cup {<<Obj(Empty), Obj([k \in {"author"} |-> Oid("3")])>>}

\* the attachments the steps of a chain can read
AttachmentsOf(c) ==
    IF \E k \in 1..Len(c) : c[k].mw = "checkOwnership"
    THEN Attachments
    ELSE {<<Null, Obj(Empty)>>}

\* strings that are not tokens of this server
Garbage == {<<>>, <<"x", ".", "y">>}

\* tokens for `u` that jwt.sign can produce with another key, issuer or audience
Foreign(u, at) ==
    LET payload == [id |-> ToStr(u._id), username |-> u.username,
                    email |-> u.email, role |-> u.role]
    IN {JwtSign(payload, "other-key",
                [expiresIn |-> JWT_EXPIRE, issuer |-> ISSUER, audience |-> AUDIENCE], at),
        JwtSign(payload, JWT_SECRET,
                [expiresIn |-> JWT_EXPIRE, issuer |-> "wrong-issuer",
                 audience |-> AUDIENCE], at),
        JwtSign(payload, JWT_SECRET,
                [expiresIn |-> JWT_EXPIRE, issuer |-> ISSUER,
                 audience |-> "wrong-audience"], at)}

\* the token strings a client can put in a header
TokenInputs == {i.tok : i \in issued} \cup Garbage
                 \cup Foreign(User("1", "testuser", "test@example.com", "user", TRUE), now)

Prefixes == {BearerPrefix, <<"b", "e", "a", "r", "e", "r", " ">>,
             <<"B", "e", "a", "r", "e", "r">>, <<"T", "o", "k", "e", "n", " ">>,
             <<>>, <<"B", "e", "a", "r", "e", "r", " ", " ">>}

\* values of req.headers.authorization
Headers ==
    {Undefined, Null, Str(<<>>), Str(BearerPrefix),
     Str(<<"B", "e", "a", "r", "e", "r">>)}
    \cup {Str(p \o <<"x", ".", "y">>) : p \in Prefixes}
    \cup {Str(BearerPrefix \o t) : t \in TokenInputs}

Idle == [stage |-> "idle", authorization |-> Undefined, user |-> Undefined,
         resource |-> Null, body |-> Obj(Empty), chain |-> <<>>, pos |-> 0,
         err |-> NoErr, responses |-> <<>>, trace |-> <<>>,
         originalUrl |-> "/api", id |-> "", pending |-> ""]

Init ==
    /\ users = SeedUsers
    /\ now = 0
    /\ issued = {}
    /\ req = Idle
    /\ posts = SeedPosts

----------------------------------------------------------------------------
(* the environment: clock, clients holding tokens, the persistence layer *)

Tick ==
    /\ now < MaxTime
    /\ now' = now + 1
    /\ UNCHANGED <<users, issued, req, posts>>

\* a controller (register, login) calls generateToken for a stored identity,
\* which is active then; the client keeps the token it was sent last
GenerateToken ==
    \E u \in users :
        /\ u.isActive
        /\ issued' = {[tok |-> generateToken(u, now), of |-> u, at |-> now]}
        /\ UNCHANGED <<users, now, req, posts>>

\* a client discards a token (logout)
DiscardToken ==
    \E i \in issued :
        /\ issued' = issued \ {i}
        /\ UNCHANGED <<users, now, req, posts>>

\* User.findOneAndUpdate({...}, {isActive: false})
Deactivate ==
    \E u \in users :
        /\ u.isActive
        /\ users' = (users \ {u}) \cup {[u EXCEPT !.isActive = FALSE]}
        /\ UNCHANGED <<now, issued, req, posts>>

\* User.deleteMany({})
DeleteMany ==
    /\ users # {}
    /\ users' = {}
    /\ UNCHANGED <<now, issued, req, posts>>

----------------------------------------------------------------------------
(* the router: one request at a time through its route chain *)

Receive ==
    /\ req.stage = "idle"
    /\ \E h \in Headers, c \in Chains :
       \E a \in AttachmentsOf(c) :
          req' = [Idle EXCEPT !.stage = "run", !.authorization = h,
                              !.resource = a[1], !.body = a[2],
                              !.chain = c, !.pos = 1]
    /\ UNCHANGED <<users, now, issued, posts>>

Cur == req.chain[req.pos]

\* express: the request after the invocation, with what it did recorded
After(name, out, dbError) ==
    LET entry == [mw |-> name, sent |-> Len(out.responses), nexts |-> Len(out.nexts),
                  status |-> IF out.responses = <<>> THEN 0
                             ELSE out.responses[1].status,
                  nextErr |-> \E k \in 1..Len(out.nexts) : out.nexts[k] # NoErr,
                  dbError |-> dbError]
        forwarded == out.nexts # <<>> /\ out.nexts[1] # NoErr
        stage == IF out.nexts = <<>>
                 THEN (IF out.responses = <<>> /\ req.responses = <<>>
                       THEN "hung" ELSE "done")
                 ELSE IF forwarded THEN "error"
                 ELSE "run"
    IN [req EXCEPT !.user = out.user,
                   !.responses = @ \o out.responses,
                   !.trace = Append(@, entry),
                   !.err = IF forwarded THEN out.nexts[1] ELSE @,
                   !.pos = IF stage = "run" THEN @ + 1 ELSE @,
                   !.stage = stage]

Dispatch(name, out, dbError) == req' = After(name, out, dbError)

Running(name) == req.stage = "run" /\ Cur.mw = name

\* outcomes of the identity lookup: it is attempted only for a token that
\* verifies, and the persistence call then resolves (FALSE) or rejects (TRUE)
LookupOutcomes ==
    LET token == extractToken(req.authorization)
    IN IF Truthy(token) /\ verifyToken(token.s, now).ok THEN BOOLEAN ELSE {FALSE}

AuthenticateStep ==
    /\ Running("authenticate")
    /\ \E dbError \in LookupOutcomes :
          Dispatch("authenticate", authenticate(req, users, now, dbError), dbError)
    /\ UNCHANGED <<users, now, issued, posts>>

OptionalAuthStep ==
    /\ Running("optionalAuth")
    /\ \E dbError \in LookupOutcomes :
          Dispatch("optionalAuth", optionalAuth(req, users, now, dbError), dbError)
    /\ UNCHANGED <<users, now, issued, posts>>

AuthorizeStep ==
    /\ Running("authorize")
    /\ Dispatch("authorize", authorize(Cur.roles, req), FALSE)
    /\ UNCHANGED <<users, now, issued, posts>>

CheckOwnershipStep ==
    /\ Running("checkOwnership")
    /\ Dispatch("checkOwnership", checkOwnership(Cur.field, req), FALSE)
    /\ UNCHANGED <<users, now, issued, posts>>

HandleValidationErrorsStep ==
    /\ Running("handleValidationErrors")
    /\ \E errors \in {<<>>, <<"Title is required">>} :
          Dispatch("handleValidationErrors", handleValidationErrors(req, errors), FALSE)
    /\ UNCHANGED <<users, now, issued, posts>>

\* errors a controller forwards from its catch block
ControllerErrors ==
    {Err("Error", "connection lost"),
     [Err("MongoServerError", "E11000 duplicate key") EXCEPT
         !.code = 11000, !.keyValue = <<"email">>]}

\* a controller: try { ...; res.status(s).json(...) } catch (error) { next(error) }
ControllerStep ==
    /\ Running("controller")
    /\ \/ \E s \in {200} :
             Dispatch("controller",
                      Respond(req, Body(s, {"success", "data"}, TRUE, Text(""),
                                        "", "", <<>>, Null)), FALSE)
       \/ \E e \in ControllerErrors :
             Dispatch("controller", Forward(req, e), FALSE)
    /\ UNCHANGED <<users, now, issued, posts>>

ErrorHandlerStep ==
    /\ req.stage = "error"
    /\ Last(req.trace).mw # "errorHandler"
    /\ Dispatch("errorHandler", errorHandler(req, req.err), FALSE)
    /\ UNCHANGED <<users, now, issued, posts>>

\* the response has been written; the server is ready for the next request
Finish ==
    /\ req.stage = "done"
    /\ req.pending = ""
    /\ req' = Idle
    /\ UNCHANGED <<users, now, issued, posts>>

Next ==
    \/ Tick
    \/ GenerateToken
    \/ DiscardToken
    \/ Deactivate
    \/ DeleteMany
    \/ Receive
    \/ AuthenticateStep
    \/ OptionalAuthStep
    \/ AuthorizeStep
    \/ CheckOwnershipStep
    \/ HandleValidationErrorsStep
    \/ ControllerStep
    \/ ErrorHandlerStep
    \/ Finish

Spec == Init /\ [][Next]_vars

----------------------------------------------------------------------------
(* properties *)

\* the step taken is an invocation of the middleware `name`
Invokes(name) == Running(name) /\ req'.trace # req.trace

\* what that invocation did
Done == Last(req'.trace)

\* the header carries a non-empty token after the exact prefix 'Bearer '
YieldsToken(h) ==
    /\ h.t = "string"
    /\ Len(h.s) > BearerLen
    /\ \A k \in 1..BearerLen : h.s[k] = BearerPrefix[k]

\* the part of the header after its first seven characters
Remainder(h) == [k \in 1..(Len(h.s) - BearerLen) |-> h.s[k + BearerLen]]

\* the stored identities named by the token of header h, when it verifies
Resolved(h) ==
    IF YieldsToken(h) /\ verifyToken(Remainder(h), now).ok
    THEN {u \in users : ToStr(u._id) = verifyToken(Remainder(h), now).value.id}
    ELSE {}

\* C1: authenticate attaches the resolved identity to req.user and calls next
\* exactly when the header yields a token, the token verifies, the identity
\* lookup resolves to an identity and that identity is active; in every other
\* case it answers 401, does not call next and leaves req.user unset.
C1_AuthenticateContract ==
    [][Invokes("authenticate") =>
         IF ~Done.dbError /\ \E u \in Resolved(req.authorization) : u.isActive
         THEN /\ req'.user \in Resolved(req.authorization)
              /\ Done.nexts = 1 /\ ~Done.nextErr /\ Done.sent = 0
         ELSE /\ Done.sent = 1 /\ Done.status = 401
              /\ Done.nexts = 0
              /\ req'.user = Undefined]_vars

C1_Witness ==
    /\ req.trace # <<>>
    /\ req.trace[1].mw = "authenticate"
    /\ req.trace[1].nexts = 1
    /\ Truthy(req.user)

\* C2: every invocation of authenticate, authorize, checkOwnership and
\* handleValidationErrors either sends one response and does not call next, or
\* calls next once and sends nothing; nothing runs after a rejection; a request
\* never holds more than one response and a finished request holds exactly one.
C2_OneOutcomePerMiddleware ==
    /\ \A k \in 1..Len(req.trace) :
          req.trace[k].mw \in {"authenticate", "authorize", "checkOwnership",
                               "handleValidationErrors"}
          => /\ \/ req.trace[k].sent = 1 /\ req.trace[k].nexts = 0
                \/ req.trace[k].sent = 0 /\ req.trace[k].nexts = 1
             /\ req.trace[k].sent = 1 => k = Len(req.trace)
    /\ Len(req.responses) <= 1
    /\ req.stage = "done" => Len(req.responses) = 1
    /\ req.stage # "hung"

C2_Witness ==
    /\ req.stage = "done"
    /\ Len(req.trace) >= 2
    /\ Len(req.trace) < Len(req.chain)
    /\ Last(req.trace).sent = 1
    /\ Len(req.responses) = 1

\* C3: authenticate, authorize and checkOwnership never call next with an
\* error; each of their failures is a 401 or 403 response of their own, and
\* errorHandler only ever runs on an error forwarded by a controller.
C3_AuthFailuresHandledLocally ==
    \A k \in 1..Len(req.trace) :
        /\ req.trace[k].mw \in {"authenticate", "authorize", "checkOwnership"}
           => /\ ~req.trace[k].nextErr
              /\ req.trace[k].nexts = 0 => req.trace[k].status \in {401, 403}
        /\ req.trace[k].mw = "errorHandler"
           => k > 1 /\ req.trace[k - 1].mw = "controller"

C3_Witness ==
    /\ req.trace # <<>>
    /\ Last(req.trace).mw = "authenticate"
    /\ Last(req.trace).dbError
    /\ Last(req.trace).status = 401
    /\ Last(req.responses).message = "Token verification failed"

\* C4: optionalAuth calls next once, without an error, and sends no response,
\* whatever the header and whatever verification and lookup do; it sets
\* req.user only to the active identity the header's token resolves to.
C4_OptionalAuthNeverBlocks ==
    [][Invokes("optionalAuth") =>
         /\ Done.nexts = 1 /\ ~Done.nextErr /\ Done.sent = 0
         /\ req'.responses = req.responses
         /\ req'.stage = "run"
         /\ req'.user # req.user
            => /\ ~Done.dbError
               /\ req'.user \in Resolved(req.authorization)
               /\ req'.user.isActive]_vars

C4_Witness ==
    /\ req.trace # <<>>
    /\ Last(req.trace).mw = "optionalAuth"
    /\ Last(req.trace).dbError
    /\ Last(req.trace).nexts = 1
    /\ req.user = Undefined

\* C5: authorize(...roles) answers 401 'Authentication required' without an
\* identity, 403 'Insufficient permissions' for an identity whose role is not
\* in a non-empty role list, and calls next otherwise; nothing else happens.
C5_AuthorizeOutcomes ==
    [][Invokes("authorize") =>
         IF req.user \in {Undefined, Null}
         THEN /\ Done.sent = 1 /\ Done.nexts = 0 /\ Done.status = 401
              /\ Last(req'.responses).message = "Authentication required"
         ELSE IF Cur.roles # {} /\ req.user.role \notin Cur.roles
         THEN /\ Done.sent = 1 /\ Done.nexts = 0 /\ Done.status = 403
              /\ Last(req'.responses).message = "Insufficient permissions"
         ELSE /\ Done.sent = 0 /\ Done.nexts = 1 /\ ~Done.nextErr
              /\ req'.responses = req.responses]_vars

C5_Witness ==
    /\ Len(req.trace) >= 2
    /\ Last(req.trace).mw = "authorize"
    /\ Last(req.trace).nexts = 1
    /\ req.chain[Len(req.trace)].roles = {}
    /\ Truthy(req.user)

\* C6: checkOwnership lets an admin identity through whatever the resource
\* and the body hold, and answers 401 when there is no identity.
C6_OwnershipAdminAndAnonymous ==
    [][Invokes("checkOwnership") =>
         /\ req.user \in {Undefined, Null}
            => /\ Done.sent = 1 /\ Done.nexts = 0 /\ Done.status = 401
               /\ Last(req'.responses).message = "Authentication required"
         /\ (Truthy(req.user) /\ req.user.role = "admin")
            => /\ Done.sent = 0 /\ Done.nexts = 1 /\ ~Done.nextErr
               /\ req'.responses = req.responses]_vars

C6_Witness ==
    /\ req.trace # <<>>
    /\ Last(req.trace).mw = "checkOwnership"
    /\ Last(req.trace).nexts = 1
    /\ Truthy(req.user)
    /\ req.user.role = "admin"
    /\ Truthy(req.resource)
    /\ Truthy(Get(req.resource, "author"))
    /\ ToStr(Get(req.resource, "author")) # ToStr(req.user._id)

\* the object whose owner field checkOwnership reads
Examined == IF req.resource \in {Undefined, Null} THEN req.body ELSE req.resource

\* C7: for a non-admin identity and an owner field that holds a value,
\* checkOwnership passes when that value and the identity's id are equal as
\* strings and answers 403 'You can only access your own resources' when they
\* differ; the username, email and role of the identity play no part.
C7_OwnershipComparesIds ==
    [][(/\ Invokes("checkOwnership")
        /\ Truthy(req.user)
        /\ req.user.role # "admin"
        /\ Truthy(Get(Examined, Cur.field))) =>
         IF Get(Examined, Cur.field).v = req.user._id.v
         THEN Done.sent = 0 /\ Done.nexts = 1 /\ ~Done.nextErr
         ELSE /\ Done.sent = 1 /\ Done.nexts = 0 /\ Done.status = 403
              /\ Last(req'.responses).message
                    = "You can only access your own resources"]_vars

C7_Witness ==
    /\ req.trace # <<>>
    /\ Last(req.trace).mw = "checkOwnership"
    /\ Last(req.trace).status = 403
    /\ Truthy(req.user)
    /\ Truthy(req.resource)
    /\ Get(req.resource, "author") = IdStr(req.user.username)

\* C8: extractToken returns the remainder of the header after the seven
\* characters 'Bearer ' when the header starts with exactly that prefix, and
\* null for every other header, undefined and null included.
C8_ExtractToken ==
    LET h == req.authorization
    IN IF /\ h.t = "string"
          /\ Len(h.s) >= BearerLen
          /\ \A k \in 1..BearerLen : h.s[k] = BearerPrefix[k]
       THEN /\ extractToken(h).t = "string"
            /\ extractToken(h).s = Remainder(h)
       ELSE extractToken(h) = Null

C8_Witness ==
    /\ req.trace # <<>>
    /\ req.trace[1].mw \in {"authenticate", "optionalAuth"}
    /\ YieldsToken(req.authorization)
    /\ extractToken(req.authorization).s = <<"x", ".", "y">>

\* C9: getUserFromToken fails with 'Invalid token' for a token that verifies
\* but whose identity is no longer stored, as it does for a malformed token.
C9_StaleTokenIsInvalid ==
    \A i \in issued :
        (/\ verifyToken(i.tok, now).ok
         /\ ~\E u \in users : ToStr(u._id) = verifyToken(i.tok, now).value.id)
        => LET res == getUserFromToken(i.tok, users, now, FALSE)
           IN ~res.ok /\ res.message = "Invalid token"

\* tokens signed with the server's secret for identity u under another issuer
\* or another audience
Misaddressed(u, at) ==
    LET payload == [id |-> ToStr(u._id), username |-> u.username,
                    email |-> u.email, role |-> u.role]
    IN {JwtSign(payload, JWT_SECRET,
                [expiresIn |-> JWT_EXPIRE, issuer |-> iss, audience |-> aud], at) :
          <<iss, aud>> \in {<<"wrong-issuer", AUDIENCE>>, <<ISSUER, "wrong-audience">>,
                            <<"wrong-issuer", "wrong-audience">>}}

\* C10: before its expiry a token made by generateToken verifies and yields the
\* id, username, email and role the identity had at issuance, with issuer
\* 'mern-testing-app' and audience 'mern-testing-users'; a token signed with
\* the same secret for another issuer or audience is rejected.
C10_TokenRoundTrip ==
    /\ \A i \in issued :
          now < i.at + JWT_EXPIRE
          => LET res == verifyToken(i.tok, now)
             IN /\ res.ok
                /\ res.value.id = i.of._id.v
                /\ res.value.username = i.of.username
                /\ res.value.email = i.of.email
                /\ res.value.role = i.of.role
                /\ res.value.iss = "mern-testing-app"
                /\ res.value.aud = "mern-testing-users"
    /\ \A u \in users : \A t \in Misaddressed(u, now) : ~verifyToken(t, now).ok

C10_Witness ==
    \E i \in issued :
        /\ i.at < now
        /\ now < i.at + JWT_EXPIRE
        /\ verifyToken(i.tok, now).ok
        /\ users # {}

----------------------------------------------------------------------------
(* the error normalization layer *)

\* the body errorHandler sends for an error
Envelope(err) == errorHandler(Idle, err).responses[1]

\* C11: a token made by generateToken (right signature, issuer and audience)
\* that is verified at or after its expiry fails with TokenExpiredError, never
\* with JsonWebTokenError; errorHandler answers that failure with 401 and
\* 'Token expired', which differs from its 401 'Invalid token'.
C11_ExpiredIsTokenExpired ==
    \A i \in issued :
        now >= i.at + JWT_EXPIRE
        => LET res == verifyToken(i.tok, now)
               expired == Envelope(Err(res.error, res.message))
               invalid == Envelope(Err("JsonWebTokenError", "invalid signature"))
           IN /\ ~res.ok
              /\ res.error = "TokenExpiredError"
              /\ expired.status = 401
              /\ expired.error = Text("Token expired")
              /\ invalid.status = 401
              /\ invalid.error = Text("Invalid token")
              /\ expired.error # invalid.error

C11_Witness ==
    \E i \in issued :
        /\ now >= i.at + JWT_EXPIRE
        /\ ~verifyToken(i.tok, now).ok
        /\ verifyToken(i.tok, i.at).ok

\* the error names the handlers of this application meet
ErrNames ==
    {"Error", "CastError", "ValidationError", "JsonWebTokenError",
     "TokenExpiredError", "MongoServerError"}

\* err.errors of a mongoose ValidationError, one entry per failed path
FieldErrors ==
    {<<>>,
     <<[path |-> "email", message |-> "Email is required"]>>,
     <<[path |-> "email", message |-> "Email is required"],
       [path |-> "password", message |-> "Password is required"]>>}

\* the errors a handler can pass to next(error)
ErrInputs ==
    {[name |-> n, code |-> ck[1], keyValue |-> ck[2], errors |-> fe,
      statusCode |-> sc, message |-> msg] :
        n \in ErrNames,
        ck \in {<<0, <<>>>>, <<11000, <<>>>>, <<11000, <<"email">>>>,
                <<11000, <<"username">>>>},
        fe \in FieldErrors, sc \in {0, 400, 403, 404},
        msg \in {"", "Something went wrong"}}

\* only a ValidationError carries errors; <<>> is an undefined err.errors
ErrorsOf(e) == e.name = "ValidationError" \/ e.errors = <<>>

UnmatchedUrls == {"/non-existent-route", "/api/unknown"}
NotFound == Mw("notFound", {}, "")

\* a request for a route whose handler will fail, or for no route at all
ReceiveAny ==
    /\ req.stage = "idle"
    /\ \E url \in UnmatchedUrls \cup {"/api"} :
          req' = [Idle EXCEPT !.stage = "run", !.originalUrl = url,
                              !.chain = IF url \in UnmatchedUrls
                                        THEN <<NotFound>> ELSE <<Controller>>,
                              !.pos = 1]
    /\ UNCHANGED <<users, now, issued, posts>>

\* a controller: try { ... } catch (error) { next(error) }
ControllerFails ==
    /\ Running("controller")
    /\ \E e \in ErrInputs :
          /\ ErrorsOf(e)
          /\ Dispatch("controller", Forward(req, e), FALSE)
    /\ UNCHANGED <<users, now, issued, posts>>

NotFoundStep ==
    /\ Running("notFound")
    /\ Dispatch("notFound", notFound(req), FALSE)
    /\ UNCHANGED <<users, now, issued, posts>>

\* errorHandler was the last error middleware: what it passed on reaches
\* the final handler of express
FinalHandlerStep ==
    /\ req.stage = "error"
    /\ Last(req.trace).mw = "errorHandler"
    /\ Dispatch("finalhandler", finalhandler(req, req.err), FALSE)
    /\ UNCHANGED <<users, now, issued, posts>>

NextErr ==
    \/ ReceiveAny
    \/ ControllerFails
    \/ NotFoundStep
    \/ ErrorHandlerStep
    \/ FinalHandlerStep
    \/ Finish

SpecErr == Init /\ [][NextErr]_vars

\* errorHandler has answered the request
Handled == req.stage = "done" /\ Last(req.trace).mw = "errorHandler"

\* err carries no signature but the duplicate key code
OnlyDuplicateKey(e) ==
    /\ e.code = 11000
    /\ e.keyValue # <<>>
    /\ e.name \notin {"ValidationError", "JsonWebTokenError", "TokenExpiredError"}

\* C12: for a duplicate key error (code 11000 with keyValue) errorHandler
\* answers 400 with success=false, error '<field> already exists' and a field
\* entry naming the duplicated field.
C12_DuplicateKeyEnvelope ==
    (Handled /\ OnlyDuplicateKey(req.err))
    => LET b == Last(req.responses)
       IN /\ b.status = 400
          /\ "success" \in b.keys /\ b.success = FALSE
          /\ b.error = [list |-> FALSE,
                         v |-> <<req.err.keyValue[1], " already exists">>]
          /\ "field" \in b.keys /\ b.field = req.err.keyValue[1]

\* C13: for a ValidationError errorHandler answers 400 with error the list of
\* the per-field messages and errors the raw err.errors.
C13_ValidationEnvelope ==
    (Handled /\ req.err.name = "ValidationError")
    => LET b == Last(req.responses)
       IN /\ b.status = 400
          /\ "success" \in b.keys /\ b.success = FALSE
          /\ b.error = List(Messages(req.err.errors))
          /\ "errors" \in b.keys /\ b.errors = req.err.errors

\* C14: a request for an unmatched route goes through notFound, which
\* forwards Error('Not Found - <originalUrl>'), then through errorHandler,
\* and the status the client finally receives is 404.
C14_UnmatchedRouteIs404 ==
    (req.stage = "done" /\ req.originalUrl \in UnmatchedUrls)
    => /\ [k \in 1..Len(req.trace) |-> req.trace[k].mw]
            = <<"notFound", "errorHandler">>
       /\ req.err.message = NotFoundMessage(req.originalUrl)
       /\ Len(req.responses) = 1
       /\ Last(req.responses).status = 404

\* err carries none of the signatures errorHandler knows
Unknown(e) ==
    /\ e.name \notin {"CastError", "ValidationError", "JsonWebTokenError",
                       "TokenExpiredError"}
    /\ e.code # 11000

\* C15: errorHandler answers a CastError with 404 'Resource not found', a
\* JsonWebTokenError with 401 'Invalid token', a TokenExpiredError with 401
\* 'Token expired', any other error with its own statusCode or 500 and its
\* own message or 'Server Error'; every envelope has success=false.
C15_ErrorMapping ==
    Handled
    => LET e == req.err
           b == Last(req.responses)
       IN /\ "success" \in b.keys /\ b.success = FALSE
          /\ (e.name = "CastError" /\ e.code # 11000)
             => b.status = 404 /\ b.error = Text("Resource not found")
          /\ e.name = "JsonWebTokenError"
             => b.status = 401 /\ b.error = Text("Invalid token")
          /\ e.name = "TokenExpiredError"
             => b.status = 401 /\ b.error = Text("Token expired")
          /\ Unknown(e)
             => /\ b.status = IF e.statusCode # 0 THEN e.statusCode ELSE 500
                /\ b.error = IF e.message # "" THEN Text(e.message)
                              ELSE Text("Server Error")

C15_Witness ==
    /\ Handled
    /\ Unknown(req.err)
    /\ req.err.statusCode = 403
    /\ req.err.message = ""
    /\ Last(req.responses).status = 403
    /\ Last(req.responses).error = Text("Server Error")

----------------------------------------------------------------------------
(* controllers/postController.js: getPost and its view-count update *)

\* getPost(req, res, next); dbError: Post.findById rejects
getPost(r, db, dbError) ==
    IF dbError THEN Forward(r, Err("Error", "connection lost"))
    ELSE IF ~Truthy(FindById(db, r.id))
    THEN Respond(r, Body(404, {"success", "error"}, FALSE,
                         Text("Post not found"), "", "", <<>>, Null))
    ELSE Respond(r, Body(200, {"success", "data"}, TRUE, Text(""), "", "", <<>>, Null))

GetPost == Mw("getPost", {}, "")

\* routes/posts.js: GET /:id and POST /
PostChains == {<<Validate, GetPost>>, <<Authenticate, Validate, Controller>>}

\* values of req.params.id: a stored post and a missing one
PostIds == {"p1", "p9"}

ReceivePost ==
    /\ req.stage = "idle"
    /\ \A p \in posts : p.views < MaxViews
    /\ \E h \in Headers, c \in PostChains, id \in PostIds :
          req' = [Idle EXCEPT !.stage = "run", !.authorization = h,
                              !.chain = c, !.pos = 1, !.id = id,
                              !.originalUrl = "/api/posts"]
    /\ UNCHANGED <<users, now, issued, posts>>

\* getPost runs; when it finds the post it starts
\* Post.findByIdAndUpdate(id, { $inc: { views: 1 } }).exec() without awaiting
\* it and answers
GetPostStep ==
    /\ Running("getPost")
    /\ \E dbError \in BOOLEAN :
          LET started == ~dbError /\ Truthy(FindById(posts, req.id))
          IN req' = [After("getPost", getPost(req, posts, dbError), dbError)
                        EXCEPT !.pending = IF started THEN req.id ELSE ""]
    /\ UNCHANGED <<users, now, issued, posts>>

\* the update started by getPost settles: it increments the views, or it
\* rejects; nothing handles the rejection, so the unhandledRejection handler of
\* server.js closes the server and exits the process
ViewUpdateSettles ==
    /\ req.pending # ""
    /\ \E rejects \in BOOLEAN :
          IF rejects
          THEN /\ req' = [req EXCEPT !.pending = "", !.stage = "exited"]
               /\ UNCHANGED posts
          ELSE /\ req' = [req EXCEPT !.pending = ""]
               /\ posts' = {IF ToStr(q._id) = req.pending
                            THEN [q EXCEPT !.views = @ + 1] ELSE q : q \in posts}
    /\ UNCHANGED <<users, now, issued>>

NextPosts ==
    \/ GenerateToken
    \/ ReceivePost
    \/ HandleValidationErrorsStep
    \/ AuthenticateStep
    \/ GetPostStep
    \/ ViewUpdateSettles
    \/ ControllerStep
    \/ ErrorHandlerStep
    \/ Finish

SpecPosts == Init /\ [][NextPosts]_vars

\* C16: every persistence failure or exception raised while a request is
\* served is forwarded to errorHandler and ends as an error response (500 for
\* an error of no known signature): in a controller, in the identity lookup
\* of authenticate and in the view-count update of getPost; the process is
\* never terminated by such a failure.
C16_FailuresReachErrorLayer ==
    /\ req.stage # "exited"
    /\ \A k \in 1..Len(req.trace) :
          req.trace[k].dbError
          => /\ req.trace[k].nextErr
             /\ req.trace[k].sent = 0
             /\ req.stage = "done"
                => /\ Last(req.trace).mw = "errorHandler"
                   /\ Last(req.responses).status = 500

----------------------------------------------------------------------------
(* models/User.js as the controllers use it *)

\* the stored secret for a password (bcrypt in the pre-save hook)
Hash(pw) == <<"$2b$", pw>>

\* a stored identity with its secret and its last login (<<>>: never)
Account(id, username, email, password, role, isActive, lastLogin) ==
    [t |-> "object", _id |-> Oid(id), username |-> username, email |-> email,
     password |-> password, role |-> role, isActive |-> isActive,
     lastLogin |-> lastLogin]

\* the identities the integration tests start from: an active one and a
\* deactivated one
SeedAccounts ==
    {Account("1", "testuser", "test@example.com", Hash("password123"), "user",
             TRUE, <<>>),
     Account("2", "inactiveuser", "inactive@example.com", Hash("password123"),
             "user", FALSE, <<>>)}

\* user.comparePassword(candidate)
comparePassword(user, candidate) == Hash(candidate) = user.password

\* User.findByCredentials(identifier): by email or by username
findByCredentials(db, identifier) ==
    IF \E u \in db : u.email = identifier \/ u.username = identifier
    THEN CHOOSE u \in db : u.email = identifier \/ u.username = identifier
    ELSE Null

\* user.toPublicJSON(): the identity without its secret
toPublicJSON(user) == Select(user, {"password"})

\* the unique indexes a document with this email and username would violate
Violated(db, email, username) ==
    {f \in {"email", "username"} :
        \E u \in db : IF f = "email" THEN u.email = email
                      ELSE u.username = username}

\* the _id given to the next document
NewIds == <<"3", "4", "5">>
NewId(db) ==
    NewIds[CHOOSE k \in 1..Len(NewIds) :
              /\ \A u \in db : ToStr(u._id) # NewIds[k]
              /\ \A j \in 1..(k - 1) : \E u \in db : ToStr(u._id) = NewIds[j]]

----------------------------------------------------------------------------
(* controllers/authController.js: register and login *)

\* the documents User.findOne({ $or: [{ email }, { username }] }) can return
Existing(db, body) ==
    {u \in db : u.email = body.email \/ u.username = body.username}

\* register naming the field the other way round
registerExisting_Swapped(existingUser, body) ==
    Body(400, {"success", "error", "field"}, FALSE, Text("User already exists"),
         "", IF existingUser.email = body.email THEN "username" ELSE "email",
         <<>>, Null)

\* register, when findOne returned existingUser
registerExisting(existingUser, body) ==
    Body(400, {"success", "error", "field"}, FALSE, Text("User already exists"),
         "", IF existingUser.email = body.email THEN "email" ELSE "username",
         <<>>, Null)

\* register, after User.create resolved with user
registerCreated(user, at) ==
    Body(201, {"success", "message", "data"}, TRUE, Text(""),
         "User registered successfully", "", <<>>,
         [user |-> toPublicJSON(user), token |-> generateToken(user, at)])

Unauthorized(error) ==
    Body(401, {"success", "error"}, FALSE, Text(error), "", "", <<>>, Null)

\* login without the isActive check
loginRefusal_SkipsActive(user, password) ==
    IF ~Truthy(user) THEN <<Unauthorized("Invalid credentials")>>
    ELSE IF ~comparePassword(user, password)
    THEN <<Unauthorized("Invalid credentials")>>
    ELSE <<>>

\* login that tells a wrong password from an unknown identifier
loginRefusal_TellsWrongPassword(user, password) ==
    IF ~Truthy(user) THEN <<Unauthorized("Invalid credentials")>>
    ELSE IF ~comparePassword(user, password)
    THEN <<Unauthorized("Invalid password")>>
    ELSE IF ~user.isActive THEN <<Unauthorized("Account is deactivated")>>
    ELSE <<>>

\* login, after findByCredentials resolved with user: the 401 it answers, or
\* <<>> when it goes on to save the identity
loginRefusal(user, password) ==
    IF ~Truthy(user) THEN <<Unauthorized("Invalid credentials")>>
    ELSE IF ~comparePassword(user, password)
    THEN <<Unauthorized("Invalid credentials")>>
    ELSE IF ~user.isActive THEN <<Unauthorized("Account is deactivated")>>
    ELSE <<>>

\* login, after user.save() resolved
loginSucceeded(user, at) ==
    Body(200, {"success", "message", "data"}, TRUE, Text(""),
         "Login successful", "", <<>>,
         [user |-> toPublicJSON(user), token |-> generateToken(user, at)])

\* the requests in flight: each slot is one connection
Slots == {1, 2}

NoRequest ==
    [op |-> "", stage |-> "idle", body |-> Empty, user |-> Undefined,
     doc |-> Null, err |-> NoErr, responses |-> <<>>]

RegisterBodies ==
    {[username |-> u, email |-> e, password |-> "password123"] :
        u \in {"testuser", "newuser", "newuser2"},
        e \in {"inactive@example.com", "new@example.com"}}

LoginBodies ==
    {[identifier |-> i, password |-> pw] :
        i \in {"testuser", "test@example.com", "inactiveuser", "nobody"},
        pw \in {"password123", "wrongpassword"}}

InitAuth ==
    /\ users = SeedAccounts
    /\ now = 0
    /\ issued = {}
    /\ req = [s \in Slots |-> NoRequest]
    /\ posts = SeedPosts

\* validateUserRegistration / validateUserLogin passed
ReceiveRegister(s) ==
    /\ req[s].stage = "idle"
    /\ \E b \in RegisterBodies :
          req' = [req EXCEPT ![s] = [NoRequest EXCEPT !.op = "register",
                                                      !.stage = "run",
                                                      !.body = b]]
    /\ UNCHANGED <<users, now, issued, posts>>

ReceiveLogin(s) ==
    /\ req[s].stage = "idle"
    /\ \E b \in LoginBodies :
          req' = [req EXCEPT ![s] = [NoRequest EXCEPT !.op = "login",
                                                      !.stage = "run",
                                                      !.body = b]]
    /\ UNCHANGED <<users, now, issued, posts>>

\* the catch block: next(error)
Failed(s, e) == req' = [req EXCEPT ![s].stage = "error", ![s].err = e]

\* res.status(...).json(...)
Answered(s, resp) ==
    req' = [req EXCEPT ![s].stage = "done", ![s].responses = @ \o <<resp>>]

\* register up to its first await: the existence check
RegisterFindOne(s) ==
    /\ req[s].op = "register" /\ req[s].stage = "run"
    /\ \/ Failed(s, Err("Error", "connection lost"))
       \/ /\ Existing(users, req[s].body) = {}
          /\ req' = [req EXCEPT ![s].stage = "checked"]
       \/ \E existingUser \in Existing(users, req[s].body) :
             Answered(s, registerExisting(existingUser, req[s].body))
    /\ UNCHANGED <<users, now, issued, posts>>

\* register from User.create on; the unique indexes reject a duplicate with
\* code 11000 and the violated key
RegisterCreate(s) ==
    /\ req[s].op = "register" /\ req[s].stage = "checked"
    /\ LET b == req[s].body
           v == Violated(users, b.email, b.username)
           user == Account(NewId(users), b.username, b.email, Hash(b.password),
                           "user", TRUE, <<>>)
       IN IF v # {}
          THEN /\ \E f \in v :
                     Failed(s, [Err("MongoServerError", "E11000 duplicate key")
                                   EXCEPT !.code = 11000, !.keyValue = <<f>>])
               /\ UNCHANGED <<users, issued>>
          ELSE /\ users' = users \cup {user}
               /\ issued' = {[tok |-> generateToken(user, now), of |-> user,
                              at |-> now]}
               /\ Answered(s, registerCreated(user, now))
    /\ UNCHANGED <<now, posts>>

\* login up to the end of its first await: the lookup
LoginFind(s) ==
    /\ req[s].op = "login" /\ req[s].stage = "run"
    /\ \/ Failed(s, Err("Error", "connection lost"))
       \/ LET user == findByCredentials(users, req[s].body.identifier)
          IN IF ~Truthy(user)
             THEN Answered(s, loginRefusal(user, req[s].body.password)[1])
             ELSE req' = [req EXCEPT ![s].stage = "loaded", ![s].doc = user]
    /\ UNCHANGED <<users, now, issued, posts>>

\* login from comparePassword on, with the document it loaded
LoginFinish(s) ==
    /\ req[s].op = "login" /\ req[s].stage = "loaded"
    /\ LET doc == req[s].doc
           refusal == loginRefusal(doc, req[s].body.password)
           user == [doc EXCEPT !.lastLogin = <<now>>]
       IN IF refusal # <<>>
          THEN /\ Answered(s, refusal[1])
               /\ UNCHANGED <<users, issued>>
          ELSE /\ users' = {IF u._id = doc._id
                            THEN [u EXCEPT !.lastLogin = <<now>>] ELSE u :
                               u \in users}
               /\ issued' = {[tok |-> generateToken(user, now), of |-> user,
                              at |-> now]}
               /\ Answered(s, loginSucceeded(user, now))
    /\ UNCHANGED <<now, posts>>

\* errorHandler answers the forwarded error
ErrorHandlerAuth(s) ==
    /\ req[s].stage = "error"
    /\ Answered(s, errorHandler(req[s], req[s].err).responses[1])
    /\ UNCHANGED <<users, now, issued, posts>>

\* the connection is free for the next request
FinishAuth(s) ==
    /\ req[s].stage = "done"
    /\ req' = [req EXCEPT ![s] = NoRequest]
    /\ UNCHANGED <<users, now, issued, posts>>

NextAuth ==
    \/ Tick
    \/ \E s \in Slots : ReceiveRegister(s)
    \/ \E s \in Slots : ReceiveLogin(s)
    \/ \E s \in Slots : RegisterFindOne(s)
    \/ \E s \in Slots : RegisterCreate(s)
    \/ \E s \in Slots : LoginFind(s)
    \/ \E s \in Slots : LoginFinish(s)
    \/ \E s \in Slots : ErrorHandlerAuth(s)
    \/ \E s \in Slots : FinishAuth(s)

SpecAuth == InitAuth /\ [][NextAuth]_vars

----------------------------------------------------------------------------
(* properties of register and login *)

\* the step is register's existence check of slot s, and the check resolved
RegisterChecks(s) ==
    /\ req[s].op = "register" /\ req[s].stage = "run"
    /\ req'[s].stage \in {"done", "checked"}

\* the step answered slot s with 400 naming field f; nothing was created and
\* no token was issued
Refused(s, f) ==
    /\ req'[s].stage = "done"
    /\ Last(req'[s].responses).status = 400
    /\ "field" \in Last(req'[s].responses).keys
    /\ Last(req'[s].responses).field = f
    /\ Last(req'[s].responses).data = Null
    /\ users' = users
    /\ issued' = issued

\* C17 as stated: the email is that of an existing identity whose username
\* differs from the one supplied => 400 with field 'email'; the username is
\* that of an existing identity whose email differs from the one supplied
\* => 400 with field 'username'; nothing is created, no token is issued.
C17_DuplicateFieldLiteral ==
    [][\A s \in Slots :
          RegisterChecks(s)
          => LET b == req[s].body
             IN /\ (\E u \in users : u.email = b.email /\ u.username # b.username)
                   => Refused(s, "email")
                /\ (\E u \in users : u.username = b.username /\ u.email # b.email)
                   => Refused(s, "username")]_vars

\* C17: register with the email of an existing identity and a username no
\* identity holds answers 400 with field 'email'; with the username of an
\* existing identity and an email no identity holds it answers 400 with field
\* 'username'; in both cases nothing is created and no token is issued.
C17_DuplicateField ==
    [][\A s \in Slots :
          RegisterChecks(s)
          => LET b == req[s].body
                 emailHeld == \E u \in users : u.email = b.email
                 usernameHeld == \E u \in users : u.username = b.username
             IN /\ (emailHeld /\ ~usernameHeld) => Refused(s, "email")
                /\ (usernameHeld /\ ~emailHeld) => Refused(s, "username")]_vars

C17_Witness ==
    \E s \in Slots :
        /\ req[s].op = "register" /\ req[s].stage = "done"
        /\ \E u \in users : u.email = req[s].body.email
        /\ \A u \in users : u.username # req[s].body.username
        /\ Last(req[s].responses).status = 400
        /\ Last(req[s].responses).field = "email"

\* slot s holds an answered register request
Registered(s) == req[s].op = "register" /\ req[s].stage = "done"

\* C18: no two stored identities share an email, a username or an id; of two
\* register requests carrying the same email or the same username at most
\* one ends with 201 and a token, and the other then receives 400 (unless its
\* own persistence call failed).
C18_UniqueIdentities ==
    /\ \A u1, u2 \in users :
          u1 # u2 => /\ u1.email # u2.email
                     /\ u1.username # u2.username
                     /\ u1._id # u2._id
    /\ \A s, t \in Slots :
          (/\ s # t
           /\ Registered(s) /\ Registered(t)
           /\ \/ req[s].body.email = req[t].body.email
              \/ req[s].body.username = req[t].body.username
           /\ Last(req[s].responses).status = 201)
          => /\ Last(req[s].responses).data # Null
             /\ Last(req[t].responses).status # 201
             /\ Last(req[t].responses).data = Null
             /\ \/ Last(req[t].responses).status = 400
                \/ req[t].err.name = "Error"

C18_Witness ==
    \E s, t \in Slots :
        /\ s # t
        /\ Registered(s) /\ Registered(t)
        /\ req[s].body.email = req[t].body.email
        /\ req[s].body.username # req[t].body.username
        /\ Last(req[s].responses).status = 201
        /\ req[t].err.code = 11000
        /\ Last(req[t].responses).status = 400

\* the step is the part of login of slot s that follows the lookup
LoginDecides(s) ==
    /\ req[s].op = "login" /\ req[s].stage = "loaded"
    /\ req'[s].stage = "done"

\* C19: login for an identity with isActive=false, found by the identifier
\* and given its correct password, answers 401 'Account is deactivated' (not
\* 'Invalid credentials'), issues no token and leaves every lastLogin as it was.
C19_DeactivatedLogin ==
    [][\A s \in Slots :
          (/\ LoginDecides(s)
           /\ ~req[s].doc.isActive
           /\ req[s].doc.password = Hash(req[s].body.password))
          => LET b == Last(req'[s].responses)
             IN /\ b.status = 401
                /\ b.error = Text("Account is deactivated")
                /\ b.error # Text("Invalid credentials")
                /\ "data" \notin b.keys /\ b.data = Null
                /\ issued' = issued
                /\ users' = users]_vars

C19_Witness ==
    \E s \in Slots :
        /\ req[s].op = "login" /\ req[s].stage = "done"
        /\ req[s].body.identifier = "inactiveuser"
        /\ req[s].body.password = "password123"
        /\ ~req[s].doc.isActive
        /\ Last(req[s].responses).error = Text("Account is deactivated")

\* the 401 body of a refused login
InvalidCredentials ==
    [status |-> 401, keys |-> {"success", "error"}, success |-> FALSE,
     error |-> Text("Invalid credentials"), message |-> "", field |-> "",
     errors |-> <<>>, data |-> Null]

\* C20: login answers the same 401 'Invalid credentials' without a token when
\* the identifier matches no identity and when it matches one whose stored
\* secret the password does not match; a lastLogin changes only in a step in
\* which login answers 200 for that identity.
C20_InvalidCredentials ==
    [][/\ \A s \in Slots :
             (/\ req[s].op = "login" /\ req[s].stage = "run"
              /\ req'[s].stage \in {"done", "loaded"}
              /\ \A u \in users : /\ u.email # req[s].body.identifier
                                  /\ u.username # req[s].body.identifier)
             => /\ req'[s].stage = "done"
                /\ Last(req'[s].responses) = InvalidCredentials
                /\ issued' = issued /\ users' = users
       /\ \A s \in Slots :
             (/\ LoginDecides(s)
              /\ req[s].doc.password # Hash(req[s].body.password))
             => /\ Last(req'[s].responses) = InvalidCredentials
                /\ issued' = issued /\ users' = users
       /\ \A u \in users, v \in users' :
             (u._id = v._id /\ u.lastLogin # v.lastLogin)
             => \E s \in Slots :
                   /\ LoginDecides(s)
                   /\ req[s].doc._id = u._id
                   /\ Last(req'[s].responses).status = 200
                   /\ v.lastLogin = <<now>>]_vars

C20_Witness ==
    \E s, t \in Slots :
        /\ req[s].op = "login" /\ req[s].stage = "done"
        /\ req[t].op = "login" /\ req[t].stage = "done"
        /\ req[s].body.identifier = "nobody"
        /\ req[t].body.identifier = "testuser"
        /\ req[t].body.password = "wrongpassword"
        /\ Last(req[s].responses) = Last(req[t].responses)
        /\ \E u \in users : u.lastLogin # <<>>

----------------------------------------------------------------------------
(* totality of errorHandler *)

\* C30: for every error value errorHandler sends exactly one response, with
\* success=false, and neither throws nor calls next; when several signatures
\* match, the branch checked last (CastError, duplicate key, ValidationError,
\* JsonWebTokenError, TokenExpiredError) decides status and message.
C30_ErrorHandlerTotal ==
    /\ \A k \in 1..Len(req.trace) :
          req.trace[k].mw = "errorHandler"
          => /\ req.trace[k].sent = 1
             /\ req.trace[k].nexts = 0
    /\ Handled
       => LET e == req.err
              b == Last(req.responses)
          IN /\ Len(req.responses) = 1
             /\ "success" \in b.keys /\ b.success = FALSE
             /\ IF e.name = "TokenExpiredError"
                THEN b.status = 401 /\ b.error = Text("Token expired")
                ELSE IF e.name = "JsonWebTokenError"
                THEN b.status = 401 /\ b.error = Text("Invalid token")
                ELSE IF e.name = "ValidationError"
                THEN b.status = 400 /\ b.error = List(Messages(e.errors))
                ELSE IF e.code = 11000
                THEN /\ b.status = 400
                     /\ b.error = [list |-> FALSE,
                                    v |-> <<e.keyValue[1], " already exists">>]
                ELSE IF e.name = "CastError"
                THEN b.status = 404 /\ b.error = Text("Resource not found")
                ELSE TRUE

----------------------------------------------------------------------------
(* checkOwnership when the owner field is missing *)

\* the invocation called next() and sent nothing
Passed == Done.sent = 0 /\ Done.nexts = 1 /\ ~Done.nextErr

\* C29: for a non-admin identity checkOwnership calls next when the examined
\* object has no value in the owner field; an attached req.resource is the
\* only object examined (req.body plays no part), and without a resource
\* req.body is examined, so a body without the owner field or with the
\* requester's own id passes.
C29_OwnershipMissingOwner ==
    [][(/\ Invokes("checkOwnership")
        /\ Truthy(req.user)
        /\ req.user.role # "admin") =>
         LET own == Get(req.resource, Cur.field)
             sent == Get(req.body, Cur.field)
         IN IF Truthy(req.resource)
            THEN IF Truthy(own)
                 THEN Passed <=> ToStr(own) = ToStr(req.user._id)
                 ELSE Passed
            ELSE /\ ~Truthy(sent) => Passed
                 /\ (Truthy(sent) /\ ToStr(sent) = ToStr(req.user._id)) => Passed]_vars

C29_Witness ==
    /\ req.trace # <<>>
    /\ Last(req.trace).mw = "checkOwnership"
    /\ Last(req.trace).nexts = 1
    /\ Truthy(req.user)
    /\ req.user.role # "admin"
    /\ Truthy(req.resource)
    /\ ~Truthy(Get(req.resource, "author"))
    /\ Truthy(Get(req.body, "author"))
    /\ ToStr(Get(req.body, "author")) # ToStr(req.user._id)

----------------------------------------------------------------------------
(* controllers/postController.js: createPost, updatePost, deletePost *)

\* a stored post; publishedAt is <<>> while unset
BlogPost(id, author, title, category, status, publishedAt, likes) ==
    [t |-> "object", _id |-> Oid(id), author |-> Oid(author), title |-> title,
     category |-> Oid(category), status |-> status,
     publishedAt |-> publishedAt, likes |-> likes]

\* what is left of a deleted post: its _id, which is never given out again
Tombstone(id) == [t |-> "deleted", _id |-> Oid(id)]

Live(db) == {p \in db : p.t = "object"}

\* Post.findById(id)
FindPost(db, id) == FindById(Live(db), id)

\* the categories created by scripts/setup-test-db.js
SeedCategories == {"c1"}

\* the _id given to the next post
NewPostIds == <<"p3">>
NewPostId(db) ==
    NewPostIds[CHOOSE k \in 1..Len(NewPostIds) :
                  /\ \A p \in db : ToStr(p._id) # NewPostIds[k]
                  /\ \A j \in 1..(k - 1) : \E p \in db : ToStr(p._id) = NewPostIds[j]]

\* the result of a controller: the response and the posts collection after it
Result(resp, db) == [resp |-> resp, db |-> db]

Refusal(status, error) ==
    Body(status, {"success", "error"}, FALSE, Text(error), "", "", <<>>, Null)

\* createPost that takes the author from the body when it has one
createPost_AuthorFromBody(r, db, at) ==
    IF r.body.category \notin SeedCategories
    THEN Result(Refusal(400, "Category not found"), db)
    ELSE LET status == IF r.body.status = "" THEN "draft" ELSE r.body.status
             post == BlogPost(NewPostId(db),
                              IF r.body.author = "" THEN ToStr(r.user._id)
                              ELSE r.body.author,
                              r.body.title, r.body.category, status,
                              IF status = "published" THEN <<at>> ELSE <<>>,
                              <<>>)
         IN Result(Body(201, {"success", "message", "data"}, TRUE, Text(""),
                        "Post created successfully", "", <<>>, [post |-> post]),
                   db \cup {post})

\* createPost(req, res, next) at time `at`; Post.create runs the pre-save
\* hook, which sets publishedAt for a post created as published
createPost(r, db, at) ==
    IF r.body.category \notin SeedCategories
    THEN Result(Refusal(400, "Category not found"), db)
    ELSE LET status == IF r.body.status = "" THEN "draft" ELSE r.body.status
             post == BlogPost(NewPostId(db), ToStr(r.user._id),
                              r.body.title, r.body.category, status,
                              IF status = "published" THEN <<at>> ELSE <<>>,
                              <<>>)
         IN Result(Body(201, {"success", "message", "data"}, TRUE, Text(""),
                        "Post created successfully", "", <<>>, [post |-> post]),
                   db \cup {post})

\* updatePost without the ownership check
updatePost_NoOwnerCheck(r, db) ==
    LET post == FindPost(db, r.id)
    IN IF ~Truthy(post)
       THEN Result(Refusal(404, "Post not found"), db)
       ELSE IF /\ r.body.category # ToStr(post.category)
               /\ r.body.category \notin SeedCategories
       THEN Result(Refusal(400, "Category not found"), db)
       ELSE LET updatedPost ==
                   [post EXCEPT !.title = r.body.title,
                                !.category = Oid(r.body.category),
                                !.status = IF r.body.status = "" THEN @
                                           ELSE r.body.status]
            IN Result(Body(200, {"success", "message", "data"}, TRUE, Text(""),
                           "Post updated successfully", "", <<>>,
                           [post |-> updatedPost]),
                      (db \ {post}) \cup {updatedPost})

\* updatePost(req, res, next); Post.findByIdAndUpdate sets the fields the
\* body provides and runs no save hook
updatePost(r, db) ==
    LET post == FindPost(db, r.id)
    IN IF ~Truthy(post)
       THEN Result(Refusal(404, "Post not found"), db)
       ELSE IF ToStr(post.author) # ToStr(r.user._id) /\ r.user.role # "admin"
       THEN Result(Refusal(403, "Not authorized to update this post"), db)
       ELSE IF /\ r.body.category # ToStr(post.category)
               /\ r.body.category \notin SeedCategories
       THEN Result(Refusal(400, "Category not found"), db)
       ELSE LET updatedPost ==
                   [post EXCEPT !.title = r.body.title,
                                !.category = Oid(r.body.category),
                                !.status = IF r.body.status = "" THEN @
                                           ELSE r.body.status]
            IN Result(Body(200, {"success", "message", "data"}, TRUE, Text(""),
                           "Post updated successfully", "", <<>>,
                           [post |-> updatedPost]),
                      (db \ {post}) \cup {updatedPost})

\* deletePost(req, res, next)
deletePost(r, db) ==
    LET post == FindPost(db, r.id)
    IN IF ~Truthy(post)
       THEN Result(Refusal(404, "Post not found"), db)
       ELSE IF ToStr(post.author) # ToStr(r.user._id) /\ r.user.role # "admin"
       THEN Result(Refusal(403, "Not authorized to delete this post"), db)
       ELSE Result(Body(200, {"success", "message"}, TRUE, Text(""),
                        "Post deleted successfully", "", <<>>, Null),
                   (db \ {post}) \cup {Tombstone(r.id)})

\* the catch block of a controller followed by errorHandler
Rejected(r, db) ==
    Result(errorHandler(r, Err("Error", "connection lost")).responses[1], db)

\* req.params.id of a post request
BlogPostIds == {"p1", "p3", "p9"}

\* req.body after validatePost ("" is an absent property)
PostBodies ==
    {[title |-> "Edited", category |-> c, status |-> st, author |-> a] :
        c \in {"c1", "c9"}, st \in {"", "draft", "published"}, a \in {"", "2"}}

\* the request served last and its response
BlogRequest(op, user, id, body, resp) ==
    [op |-> op, user |-> user, id |-> id, body |-> body, responses |-> <<resp>>]

InitBlog ==
    /\ users = SeedUsers
    /\ now = 0
    /\ issued = {}
    /\ req = [op |-> "", user |-> Undefined, id |-> "", body |-> Empty,
              responses |-> <<>>]
    /\ posts = {BlogPost("p1", "1", "First post", "c1", "draft", <<>>, <<>>)}

\* POST /api/posts by the identity authenticate attached
CreatePost ==
    /\ \E k \in 1..Len(NewPostIds) : \A p \in posts : ToStr(p._id) # NewPostIds[k]
    /\ \E u \in users, b \in PostBodies, dbError \in BOOLEAN :
          LET r == [user |-> u, id |-> "", body |-> b]
              out == IF dbError THEN Rejected(r, posts)
                     ELSE createPost(r, posts, now)
          IN /\ posts' = out.db
             /\ req' = BlogRequest("createPost", u, "", b, out.resp)
    /\ UNCHANGED <<users, now, issued>>

\* PUT /api/posts/:id
UpdatePost ==
    /\ \E u \in users, id \in BlogPostIds, dbError \in BOOLEAN,
          b \in {x \in PostBodies : x.author = ""} :
          LET r == [user |-> u, id |-> id, body |-> b]
              out == IF dbError THEN Rejected(r, posts) ELSE updatePost(r, posts)
          IN /\ posts' = out.db
             /\ req' = BlogRequest("updatePost", u, id, b, out.resp)
    /\ UNCHANGED <<users, now, issued>>

\* DELETE /api/posts/:id
DeletePost ==
    /\ \E u \in users, id \in BlogPostIds, dbError \in BOOLEAN :
          LET r == [user |-> u, id |-> id, body |-> Empty]
              out == IF dbError THEN Rejected(r, posts) ELSE deletePost(r, posts)
          IN /\ posts' = out.db
             /\ req' = BlogRequest("deletePost", u, id, Empty, out.resp)
    /\ UNCHANGED <<users, now, issued>>

NextBlog ==
    \/ Tick
    \/ CreatePost
    \/ UpdatePost
    \/ DeletePost

SpecBlog == InitBlog /\ [][NextBlog]_vars

----------------------------------------------------------------------------
(* Properties of the post controllers *)

\* the requester is the author of the post or an administrator
Authorized(u, p) == ToStr(p.author) = ToStr(u._id) \/ u.role = "admin"

\* this step served a request of one of the operations and the database answered
Served(ops) ==
    /\ req' # req
    /\ req'.op \in ops
    /\ req'.responses[1].status # 500

\* C25: updatePost modifies and deletePost removes a post only when the
\* requester's id equals the post's author id or the requester's role is
\* admin; every other requester gets 403 and the post is left unchanged; a
\* request naming a post that does not exist gets 404 and changes nothing.
C25_OwnerOrAdminOnly ==
    [][Served({"updatePost", "deletePost"}) =>
          LET post == FindPost(posts, req'.id)
              res == req'.responses[1]
          IN /\ ~Truthy(post) =>
                   /\ res.status = 404
                   /\ res.error = Text("Post not found")
                   /\ posts' = posts
             /\ Truthy(post) /\ ~Authorized(req'.user, post) =>
                   /\ res.status = 403
                   /\ res.success = FALSE
                   /\ posts' = posts
             /\ \A p \in Live(posts) :
                   p \notin posts' =>
                      /\ ToStr(p._id) = req'.id
                      /\ Authorized(req'.user, p)
             /\ Truthy(post) /\ Authorized(req'.user, post) /\ res.status = 200 =>
                   IF req'.op = "deletePost"
                   THEN ~Truthy(FindPost(posts', req'.id))
                   ELSE /\ Truthy(FindPost(posts', req'.id))
                        /\ FindPost(posts', req'.id).title = req'.body.title]_vars

\* a requester who is neither author nor administrator was refused while a
\* post of testuser stands edited
C25_Witness ==
    /\ req.op \in {"updatePost", "deletePost"}
    /\ req.responses[1].status = 403
    /\ Truthy(FindPost(posts, req.id))
    /\ \E p \in Live(posts) :
          /\ ToStr(p.author) = "1"
          /\ p.title = "Edited"

\* C26: a post created through createPost has as author the id of the
\* authenticated identity whatever author the body carries; a category id
\* that refers to no existing category gets 400 'Category not found' and no
\* post is created.
C26_AuthorIsRequester ==
    [][Served({"createPost"}) =>
          LET res == req'.responses[1]
          IN IF req'.body.category \notin SeedCategories
             THEN /\ res.status = 400
                  /\ res.error = Text("Category not found")
                  /\ posts' = posts
             ELSE /\ res.status = 201
                  /\ \E p \in posts' \ posts :
                        /\ posts' = posts \cup {p}
                        /\ p.t = "object"
                        /\ ToStr(p.author) = ToStr(req'.user._id)
                        /\ res.data.post = p]_vars

\* a post was created by a requester whose body named another identity as author
C26_Witness ==
    /\ req.op = "createPost"
    /\ req.responses[1].status = 201
    /\ req.body.author # ""
    /\ req.body.author # ToStr(req.user._id)
    /\ \E p \in Live(posts) : p = req.responses[1].data.post

\* C28: every stored post whose status is 'published' has publishedAt set,
\* whether it was published by createPost or by a later updatePost, and a
\* publishedAt that is set never changes afterwards.
C28_PublishedHasDate ==
    /\ [](\A p \in Live(posts) : p.status = "published" => p.publishedAt # <<>>)
    /\ [][\A p \in Live(posts) : \A q \in Live(posts') :
             p._id = q._id /\ p.publishedAt # <<>> =>
                q.publishedAt = p.publishedAt]_vars

\* the part of C28 that the code keeps: a publishedAt that is set never changes
C28_DateNeverChanges ==
    [][\A p \in Live(posts) : \A q \in Live(posts') :
          p._id = q._id /\ p.publishedAt # <<>> =>
             q.publishedAt = p.publishedAt]_vars

\* the part of C28 that the code keeps: createPost stores a published post
\* with its publishedAt
C28_CreatedPublishedHasDate ==
    [][Served({"createPost"}) /\ req'.responses[1].status = 201
          /\ req'.body.status = "published" =>
             req'.responses[1].data.post.publishedAt = <<now>>]_vars

----------------------------------------------------------------------------
(* controllers/postController.js: toggleLike, two requests in flight *)

\* Array.prototype.includes on an array of ids
Includes(likes, id) == \E i \in 1..Len(likes) : likes[i] = id

\* MongooseArray.pull and the $pull it sends: every occurrence is removed
Pull(likes, id) == SelectSeq(likes, LAMBDA x : x # id)

\* MongooseArray.push and the $push it sends
Push(likes, id) == Append(likes, id)

\* post.save(): the change made to the array is sent as $pull or $push and
\* applied to the array stored at that time
SaveLikes(db, r) ==
    LET post == FindPost(db, r.id)
    IN (db \ {post}) \cup
          {[post EXCEPT !.likes = IF r.isLiked THEN Pull(@, r.user._id)
                                  ELSE Push(@, r.user._id)]}

\* a like request: the post it read (doc holds its likes after pull or push)
LikeRequest(stage, user, id, isLiked, doc, responses) ==
    [stage |-> stage, user |-> user, id |-> id, isLiked |-> isLiked,
     doc |-> doc, responses |-> responses]

NoLike == LikeRequest("idle", Undefined, "", FALSE, <<>>, <<>>)

InitLikes ==
    /\ users = SeedUsers
    /\ now = 0
    /\ issued = {}
    /\ req = [s \in Slots |-> NoLike]
    /\ posts = {BlogPost("p1", "1", "First post", "c1", "published", <<0>>, <<>>)}

\* toggleLike up to post.save(): Post.findById, includes, pull or push
LikeFind(s) ==
    /\ req[s].stage = "idle"
    /\ \E u \in users, id \in PostIds, dbError \in BOOLEAN :
          LET post == FindPost(posts, id)
              isLiked == Includes(post.likes, u._id)
          IN req' = [req EXCEPT ![s] =
                IF dbError
                THEN LikeRequest("done", u, id, FALSE, <<>>,
                                 <<Rejected(req[s], posts).resp>>)
                ELSE IF ~Truthy(post)
                THEN LikeRequest("done", u, id, FALSE, <<>>,
                                 <<Refusal(404, "Post not found")>>)
                ELSE LikeRequest("found", u, id, isLiked,
                                 IF isLiked THEN Pull(post.likes, u._id)
                                 ELSE Push(post.likes, u._id),
                                 <<>>)]
    /\ UNCHANGED <<users, now, issued, posts>>

\* toggleLike from post.save() to the response
LikeSave(s) ==
    /\ req[s].stage = "found"
    /\ \E dbError \in BOOLEAN :
          IF dbError
          THEN /\ req' = [req EXCEPT ![s].stage = "done",
                             ![s].responses = <<Rejected(req[s], posts).resp>>]
               /\ posts' = posts
          ELSE /\ posts' = SaveLikes(posts, req[s])
               /\ req' = [req EXCEPT ![s].stage = "done",
                             ![s].responses =
                                <<Body(200, {"success", "message", "data"}, TRUE,
                                       Text(""),
                                       IF req[s].isLiked THEN "Post unliked"
                                       ELSE "Post liked",
                                       "", <<>>,
                                       [isLiked |-> ~req[s].isLiked,
                                        likeCount |-> Len(req[s].doc)])>>]
    /\ UNCHANGED <<users, now, issued>>

\* the response has been delivered
FinishLike(s) ==
    /\ req[s].stage = "done"
    /\ req' = [req EXCEPT ![s] = NoLike]
    /\ UNCHANGED <<users, now, issued, posts>>

NextLikes ==
    \E s \in Slots :
       \/ LikeFind(s)
       \/ LikeSave(s)
       \/ FinishLike(s)

SpecLikes == InitLikes /\ [][NextLikes]_vars

\* C27: after any interleaving of toggleLike requests the likes of a post
\* contain each identity id at most once, and the isLiked and likeCount a
\* toggle returns are the membership of the requester in, and the length of,
\* the likes stored when it completes.
C27_LikesAreASet ==
    /\ [](\A p \in Live(posts) :
             \A i, j \in 1..Len(p.likes) : p.likes[i] = p.likes[j] => i = j)
    /\ [][\A s \in Slots :
             req[s].stage = "found" /\ req'[s].stage = "done"
                /\ req'[s].responses[1].status = 200 =>
                   LET post == FindPost(posts', req[s].id)
                       data == req'[s].responses[1].data
                   IN /\ data.isLiked = Includes(post.likes, req[s].user._id)
                      /\ data.likeCount = Len(post.likes)]_vars

\* the part of C27 that the code keeps: a toggle whose read and save no other
\* save separates flips the membership of the requester, adds no duplicate
\* and reports the stored likes
C27_UninterruptedToggle ==
    [][\A s \in Slots :
          LET before == FindPost(posts, req[s].id)
              after == FindPost(posts', req[s].id)
              u == req[s].user._id
              data == req'[s].responses[1].data
          IN /\ req[s].stage = "found" /\ req'[s].stage = "done"
             /\ req'[s].responses[1].status = 200
             /\ req[s].isLiked = Includes(before.likes, u)
             /\ req[s].doc = (IF req[s].isLiked THEN Pull(before.likes, u)
                              ELSE Push(before.likes, u))
             /\ \A i, j \in 1..Len(before.likes) :
                   before.likes[i] = before.likes[j] => i = j
             => /\ Includes(after.likes, u) = ~Includes(before.likes, u)
                /\ \A i, j \in 1..Len(after.likes) :
                      after.likes[i] = after.likes[j] => i = j
                /\ data.isLiked = Includes(after.likes, u)
                /\ data.likeCount = Len(after.likes)]_vars

----------------------------------------------------------------------------
(* controllers/authController.js and routes/users.js: the account operations *)

\* a stored identity with its profile fields ("" is an unset field)
Member(id, username, email, password, role, isActive, lastLogin, first, last) ==
    [t |-> "object", _id |-> Oid(id), username |-> username, email |-> email,
     password |-> password, role |-> role, isActive |-> isActive,
     lastLogin |-> lastLogin, firstName |-> first, lastName |-> last,
     bio |-> "", avatar |-> ""]

SeedMembers ==
    {Member("1", "testuser", "test@example.com", Hash("password123"), "user",
            TRUE, <<>>, "Test", ""),
     Member("2", "admin", "admin@example.com", Hash("password123"), "admin",
            TRUE, <<>>, "Admin", "User")}

\* the Authorization header a client builds from a token
Bearer(tok) == Str(BearerPrefix \o tok)

\* authenticate for a client that presents a token of identity u issued
\* just now
Attach(u, db, at) ==
    authenticate([authorization |-> Bearer(generateToken(u, at)),
                  user |-> Undefined], db, at, FALSE)

\* a route behind authenticate: its response when it sent one, else the
\* controller's result
Behind(auth, db, out) ==
    IF auth.responses # <<>> THEN Result(auth.responses[1], db) ELSE out

\* the fields updateProfile takes from the body
ProfileFields == {"firstName", "lastName", "bio", "avatar"}

\* getProfile(req, res, next)
getProfile(r, db) ==
    LET user == Select(FindById(db, ToStr(r.user._id)), {"password"})
    IN Result(Body(200, {"success", "data"}, TRUE, Text(""), "", "", <<>>,
                   [user |-> toPublicJSON(user)]),
              db)

\* updateProfile that passes the whole body to findByIdAndUpdate
updateProfile_WholeBody(r, db) ==
    LET old == FindById(db, ToStr(r.user._id))
        new == [k \in DOMAIN old |->
                   IF k \in DOMAIN r.body /\ r.body[k] # "" THEN r.body[k]
                   ELSE old[k]]
        user == Select(new, {"password"})
    IN Result(Body(200, {"success", "message", "data"}, TRUE, Text(""),
                   "Profile updated successfully", "", <<>>,
                   [user |-> toPublicJSON(user)]),
              (db \ {old}) \cup {new})

\* updateProfile(req, res, next): findByIdAndUpdate sets the ones of
\* firstName, lastName, bio and avatar that the body defines
updateProfile(r, db) ==
    LET old == FindById(db, ToStr(r.user._id))
        new == [k \in DOMAIN old |->
                   IF k \in ProfileFields /\ r.body[k] # "" THEN r.body[k]
                   ELSE old[k]]
        user == Select(new, {"password"})
    IN Result(Body(200, {"success", "message", "data"}, TRUE, Text(""),
                   "Profile updated successfully", "", <<>>,
                   [user |-> toPublicJSON(user)]),
              (db \ {old}) \cup {new})

\* changePassword without the check of the current password
changePassword_SkipsCheck(r, db) ==
    LET user == FindById(db, ToStr(r.user._id))
    IN Result(Body(200, {"success", "message"}, TRUE, Text(""),
                   "Password changed successfully", "", <<>>, Null),
              (db \ {user}) \cup
                 {[user EXCEPT !.password = Hash(r.body.newPassword)]})

\* changePassword(req, res, next); user.save() hashes the modified password
changePassword(r, db) ==
    LET user == FindById(db, ToStr(r.user._id))
    IN IF ~comparePassword(user, r.body.currentPassword)
       THEN Result(Refusal(400, "Current password is incorrect"), db)
       ELSE Result(Body(200, {"success", "message"}, TRUE, Text(""),
                        "Password changed successfully", "", <<>>, Null),
                   (db \ {user}) \cup
                      {[user EXCEPT !.password = Hash(r.body.newPassword)]})

\* GET /api/users without the select
listUsers_NoSelect(r, db) ==
    LET out == authorize({"admin"}, r)
    IN IF out.responses # <<>> THEN Result(out.responses[1], db)
       ELSE Result(Body(200, {"success", "data"}, TRUE, Text(""), "", "", <<>>,
                        [users |-> db, total |-> Cardinality(db)]),
                   db)

\* GET /api/users: authorize('admin'), then User.find(query).select('-password')
listUsers(r, db) ==
    LET out == authorize({"admin"}, r)
    IN IF out.responses # <<>> THEN Result(out.responses[1], db)
       ELSE Result(Body(200, {"success", "data"}, TRUE, Text(""), "", "", <<>>,
                        [users |-> {Select(u, {"password"}) : u \in db},
                         total |-> Cardinality(db)]),
                   db)

\* GET /api/users/:id
getUser(r, db) ==
    LET user == Select(FindById(db, r.id), {"password", "email"})
    IN IF ~Truthy(user) THEN Result(Refusal(404, "User not found"), db)
       ELSE Result(Body(200, {"success", "data"}, TRUE, Text(""), "", "", <<>>,
                        [user |-> user]),
                   db)

\* register(req, res, next)
register(r, db, at) ==
    IF Existing(db, r.body) # {}
    THEN Result(registerExisting(CHOOSE u \in Existing(db, r.body) : TRUE, r.body), db)
    ELSE LET user == Member(NewId(db), r.body.username, r.body.email,
                            Hash(r.body.password), "user", TRUE, <<>>,
                            "", "")
         IN Result(registerCreated(user, at), db \cup {user})

\* login(req, res, next)
login(r, db, at) ==
    LET found == findByCredentials(db, r.body.identifier)
        refusal == loginRefusal(found, r.body.password)
    IN IF refusal # <<>> THEN Result(refusal[1], db)
       ELSE LET user == [found EXCEPT !.lastLogin = <<at>>]
            IN Result(loginSucceeded(user, at), (db \ {found}) \cup {user})

\* the request served last and its response
AccountRequest(op, user, id, body, resp) ==
    [op |-> op, user |-> user, id |-> id, body |-> body, responses |-> <<resp>>]

\* req.body of PUT /api/auth/profile ("" is an absent property)
ProfileBodies ==
    {[firstName |-> p[1], lastName |-> p[2], bio |-> p[2], avatar |-> p[2],
      role |-> x, email |-> IF x = "" THEN "" ELSE "evil@example.com",
      password |-> x] :
        p \in {<<"", "">>, <<"New", "">>, <<"New", "Set">>},
        x \in {"", "admin"}}

\* req.body of PUT /api/auth/change-password
PasswordBodies ==
    {[currentPassword |-> c, newPassword |-> n] :
        c \in {"password123", "wrongpassword"},
        n \in {"newpassword456"}}

\* req.body of POST /api/auth/login
CredentialBodies ==
    {[identifier |-> "testuser", password |-> pw] :
        pw \in {"password123", "newpassword456"}}

\* req.body of POST /api/auth/register
NewcomerBodies ==
    {[username |-> u, email |-> "new@example.com", password |-> "password123"] :
        u \in {"testuser", "newuser"}}

\* the identities whose clients send requests
Clients(db) == {u \in db : u.isActive /\ ToStr(u._id) \in {"1", "2"}}

InitAccount ==
    /\ users = SeedMembers
    /\ now = 0
    /\ issued = {}
    /\ req = [op |-> "", user |-> Undefined, id |-> "", body |-> Empty,
              responses |-> <<>>]
    /\ posts = {}

\* POST /api/auth/register
Register ==
    /\ \E b \in NewcomerBodies :
          LET out == register([body |-> b], users, now)
          IN /\ users' = out.db
             /\ req' = AccountRequest("register", Undefined, "", b, out.resp)
    /\ UNCHANGED <<now, issued, posts>>

\* POST /api/auth/login; the client keeps the first token it was sent
Login ==
    /\ \E b \in CredentialBodies :
          LET out == login([body |-> b], users, now)
          IN /\ users' = out.db
             /\ req' = AccountRequest("login", Undefined, "", b, out.resp)
             /\ issued' = IF out.resp.status = 200 /\ issued = {}
                          THEN {[tok |-> out.resp.data.token,
                                 of |-> ToStr(out.resp.data.user._id),
                                 at |-> now]}
                          ELSE issued
    /\ UNCHANGED <<now, posts>>

\* GET /api/auth/me with a token the client kept
Me ==
    /\ \E i \in issued :
          LET r == [authorization |-> Bearer(i.tok), user |-> Undefined]
              auth == authenticate(r, users, now, FALSE)
          IN req' = AccountRequest("getProfile", auth.user, "", Empty,
                       Behind(auth, users,
                              getProfile([user |-> auth.user], users)).resp)
    /\ UNCHANGED <<users, now, issued, posts>>

\* PUT /api/auth/profile
UpdateProfile ==
    /\ \E u \in Clients(users), b \in ProfileBodies :
          LET auth == Attach(u, users, now)
              r == [user |-> auth.user, body |-> b]
              out == Behind(auth, users, updateProfile(r, users))
          IN /\ users' = out.db
             /\ req' = AccountRequest("updateProfile", r.user, "", b, out.resp)
    /\ UNCHANGED <<now, issued, posts>>

\* PUT /api/auth/change-password
ChangePassword ==
    /\ \E u \in Clients(users), b \in PasswordBodies :
          LET auth == Attach(u, users, now)
              r == [user |-> auth.user, body |-> b]
              out == Behind(auth, users, changePassword(r, users))
          IN /\ ToStr(u._id) = "1"
             /\ users' = out.db
             /\ req' = AccountRequest("changePassword", r.user, "", b, out.resp)
    /\ UNCHANGED <<now, issued, posts>>

\* GET /api/users
ListUsers ==
    /\ \E u \in Clients(users) :
          LET auth == Attach(u, users, now)
              r == [user |-> auth.user]
          IN req' = AccountRequest("listUsers", r.user, "", Empty,
                       Behind(auth, users, listUsers(r, users)).resp)
    /\ UNCHANGED <<users, now, issued, posts>>

\* GET /api/users/:id
GetUser ==
    /\ \E id \in {"1", "9"} :
          req' = AccountRequest("getUser", Undefined, id, Empty,
                                getUser([id |-> id], users).resp)
    /\ UNCHANGED <<users, now, issued, posts>>

\* User.findOneAndUpdate({...}, {isActive: false}) on testuser
DeactivateMember ==
    /\ \E u \in users :
          /\ ToStr(u._id) = "1"
          /\ u.isActive
          /\ users' = (users \ {u}) \cup {[u EXCEPT !.isActive = FALSE]}
    /\ UNCHANGED <<now, issued, req, posts>>

NextAccount ==
    \/ Tick
    \/ Register
    \/ Login
    \/ Me
    \/ UpdateProfile
    \/ ChangePassword
    \/ ListUsers
    \/ GetUser
    \/ DeactivateMember
    \/ DeleteMany

SpecAccount == InitAccount /\ [][NextAccount]_vars

----------------------------------------------------------------------------
(* Properties of the account operations *)

\* the representation carries the secret
Exposed(doc) == "password" \in DOMAIN doc

\* C21: no response of register, login, GET /auth/me, PUT /auth/profile,
\* PUT /auth/change-password, GET /users or GET /users/:id contains the secret
\* of an identity, and the identity authenticate attaches to a request is
\* loaded without its secret.
C21_NoSecretLeaves ==
    /\ Truthy(req.user) => ~Exposed(req.user)
    /\ req.responses # <<>> =>
          LET res == req.responses[1]
          IN /\ res.keys \subseteq {"success", "error", "message", "data", "field"}
             /\ res.data # Null =>
                   /\ DOMAIN res.data \subseteq {"user", "users", "token", "total"}
                   /\ "user" \in DOMAIN res.data => ~Exposed(res.data.user)
                   /\ "users" \in DOMAIN res.data =>
                         \A x \in res.data.users : ~Exposed(x)

\* an administrator was sent the list of identities, a registered one among
\* them, by a request that authenticate let through
C21_Witness ==
    /\ req.op = "listUsers"
    /\ req.responses[1].status = 200
    /\ Truthy(req.user)
    /\ \E x \in req.responses[1].data.users : x.username = "newuser"
    /\ \E u \in users : Exposed(u) /\ u.username = "newuser"

\* C22: changePassword with a currentPassword that does not match the stored
\* secret answers 400 'Current password is incorrect' and leaves the secret
\* unchanged; with a matching one it replaces the secret so that login
\* succeeds with the new password and fails with the old one; the stored
\* secret is never the plaintext.
C22_ChangePassword ==
    [][Served({"changePassword"}) =>
          LET id == ToStr(req'.user._id)
              before == FindById(users, id)
              after == FindById(users', id)
              body == req'.body
              res == req'.responses[1]
          IN IF ~comparePassword(before, body.currentPassword)
             THEN /\ res.status = 400
                  /\ res.error = Text("Current password is incorrect")
                  /\ users' = users
             ELSE /\ res.status = 200
                  /\ after.password = Hash(body.newPassword)
                  /\ after.password # <<body.newPassword>>
                  /\ loginRefusal(findByCredentials(users', after.username),
                                  body.newPassword) = <<>>
                  /\ body.currentPassword # body.newPassword =>
                        loginRefusal(findByCredentials(users', after.username),
                                     body.currentPassword)
                           = <<Unauthorized("Invalid credentials")>>
                  /\ users' \ {after} = users \ {before}]_vars

\* after a password change, a login with the new password succeeded
C22_Witness ==
    /\ req.op = "login"
    /\ req.responses[1].status = 200
    /\ req.body.password = "newpassword456"
    /\ \E u \in users : u.username = "testuser" /\ u.password = Hash("newpassword456")

\* authenticate lets a request with this token through
Accepts(tok) ==
    LET out == authenticate([authorization |-> Bearer(tok), user |-> Undefined],
                            users, now, FALSE)
    IN out.responses = <<>> /\ out.nexts = <<NoErr>>

\* C23: a token issued at login stays accepted by authenticate until its
\* expiry whatever login, profile update or password change happens later:
\* it is rejected exactly when it has expired, its identity is inactive or
\* its identity no longer exists.
C23_TokensAreStateless ==
    \A i \in issued :
       Accepts(i.tok) <=>
          /\ now < i.at + JWT_EXPIRE
          /\ \E u \in users : ToStr(u._id) = i.of /\ u.isActive

\* a token is still accepted after its identity logged in again, changed its
\* password and updated its profile
C23_Witness ==
    \E i \in issued :
       /\ Accepts(i.tok)
       /\ \E u \in users :
             /\ ToStr(u._id) = i.of
             /\ u.password # Hash("password123")
             /\ u.lastLogin # <<i.at>>
             /\ u.firstName = "New"

\* C24: updateProfile changes only the authenticated identity and only the
\* ones of firstName, lastName, bio and avatar that the body provides; the
\* others keep their value, and username, email, role, isActive, the secret
\* and every other identity stay as they were whatever the body contains.
C24_ProfileFrame ==
    [][Served({"updateProfile"}) =>
          LET id == ToStr(req'.user._id)
              before == FindById(users, id)
              after == FindById(users', id)
              body == req'.body
          IN /\ req'.responses[1].status = 200
             /\ \A f \in ProfileFields :
                   after[f] = IF body[f] # "" THEN body[f] ELSE before[f]
             /\ \A f \in DOMAIN before \ ProfileFields : after[f] = before[f]
             /\ DOMAIN after = DOMAIN before
             /\ users' \ {after} = users \ {before}]_vars

\* a profile update whose body also carried role, email and password set the
\* first name and nothing else
C24_Witness ==
    /\ req.op = "updateProfile"
    /\ req.responses[1].status = 200
    /\ req.body.role = "admin"
    /\ req.body.firstName = "New"
    /\ req.body.lastName = ""
    /\ \E u \in users :
          /\ u._id = req.user._id
          /\ u.firstName = "New"
          /\ u.role = "user"

====
